---- MODULE Spec2Model ----
(***************************************************************************)
(* A model of az-coordinator's reconciliation engine: the differ           *)
(* (SessionLease.Between), the applier (Delta.Apply), the secrets store,   *)
(* the desired-unit builder and the sync-progress tracker of the web API.  *)
(*                                                                         *)
(* Go values are represented as follows.                                   *)
(*   - a path is the sequence of its components;                           *)
(*   - a map is a function whose DOMAIN is the key set;                    *)
(*   - a pointer that may be nil is a sequence of length 0 or 1;           *)
(*   - a []byte is a record [isNil, bytes]; bytes.Equal compares .bytes,   *)
(*     so a nil slice equals an empty one;                                 *)
(*   - the text of a unit file is the record of the values the template    *)
(*     substitutes, tagged with the template's name.                       *)
(***************************************************************************)
EXTENDS Integers, Sequences, FiniteSets, TLC

(***************************************************************************)
(* Bounds of the model.                                                    *)
(***************************************************************************)
MaxDesired == 2
MaxActual == 2
MaxFaults == 1

(***************************************************************************)
(* Paths.                                                                  *)
(***************************************************************************)
UnitDir == <<"etc", "systemd", "system">>
VendorDir == <<"usr", "lib", "systemd", "system">>

FilenameTLSCertificate == <<"etc", "ssl", "az", "backend.azurefire.net", "fullchain.pem">>
FilenameTLSKey == <<"etc", "ssl", "az", "backend.azurefire.net", "privkey.pem">>
FilenameDHParams == <<"etc", "ssl", "az", "dhparams.pem">>

tlsKeysToPath ==
    [k \in {"TLS_CERTIFICATE", "TLS_KEY", "TLS_DH_PARAMS"} |->
        CASE k = "TLS_CERTIFICATE" -> FilenameTLSCertificate
          [] k = "TLS_KEY" -> FilenameTLSKey
          [] OTHER -> FilenameDHParams]

\* path.Base: the last component of a path.
Base(path) == IF Len(path) = 0 THEN "." ELSE path[Len(path)]

\* secrets.IsTLSFile: membership among the values of tlsKeysToPath.
IsTLSFileTwoOnly(filePath) == filePath \in {FilenameTLSCertificate, FilenameTLSKey}
IsTLSFile(filePath) == \E k \in DOMAIN tlsKeysToPath : tlsKeysToPath[k] = filePath

(***************************************************************************)
(* Byte slices.                                                            *)
(***************************************************************************)
NilBytes == [isNil |-> TRUE, bytes |-> <<>>]
Bytes(b) == [isNil |-> FALSE, bytes |-> b]
BytesEqual(a, b) == a.bytes = b.bytes

(***************************************************************************)
(* Unit types and desired units.                                           *)
(***************************************************************************)
TypeSimple == 0
TypeTimer == 1
TypeOneShot == 2
TypeSelf == 3

namesByType == [t \in {TypeSimple, TypeTimer, TypeOneShot, TypeSelf} |->
    CASE t = TypeSimple -> "simple"
      [] t = TypeTimer -> "timer"
      [] t = TypeOneShot -> "oneshot"
      [] OTHER -> "self"]

EmptyMap == [x \in {} |-> ""]

DesiredDockerContainer(name, imageName, imageTag, imageID) ==
    [Name |-> name, ImageName |-> imageName, ImageTag |-> imageTag, ImageID |-> imageID]

DesiredSystemdUnit(path, type, container, secretKeys, env, volumes, schedule) ==
    [Path |-> path, Type |-> type, Container |-> container, Secrets |-> secretKeys,
     Env |-> env, Ports |-> EmptyMap, Volumes |-> volumes, Schedule |-> schedule]

ActualSystemdUnit(path, imageID, content) ==
    [Path |-> path, ImageID |-> imageID, Content |-> content]

\* DesiredSystemdUnit.UnitName and ActualSystemdUnit.UnitName.
UnitName(unit) == Base(unit.Path)

(***************************************************************************)
(* Rendering of unit files.                                                *)
(***************************************************************************)
Argv0 == "/usr/local/bin/az-coordinator"

NoText == [tpl |-> "", desc |-> "", cname |-> "", image |-> "", tag |-> "",
           env |-> EmptyMap, volumes |-> EmptyMap, ports |-> EmptyMap,
           schedule |-> "", argv0 |-> ""]
ForeignText == [NoText EXCEPT !.tpl = "foreign"]

\* The name a rendered unit displays: the container's name when the unit has
\* a container with a non-empty name, the logical unit name otherwise.
UnitDisplayName(unit) ==
    IF unit.Container # <<>> /\ unit.Container[1].Name # ""
    THEN unit.Container[1].Name
    ELSE UnitName(unit)

\* resolveDesiredUnit: the unit's env overlaid with its secrets; one error per
\* secret key that the bag does not hold.
resolveDesiredUnit(unit, bag) ==
    LET keys == {unit.Secrets[i] : i \in DOMAIN unit.Secrets}
        missing == {k \in keys : k \notin DOMAIN bag}
        fullEnv == [k \in DOMAIN unit.Env \cup keys |->
                       IF k \in keys THEN bag[k] ELSE unit.Env[k]]
    IN  IF missing # {}
        THEN [errs |-> missing, Env |-> EmptyMap]
        ELSE [errs |-> {}, Env |-> fullEnv]

\* The four templates.
ExecuteTemplate(unit, env) ==
    CASE unit.Type = TypeSimple ->
            [NoText EXCEPT !.tpl = "simple", !.desc = UnitDisplayName(unit),
                           !.cname = unit.Container[1].Name,
                           !.image = unit.Container[1].ImageName,
                           !.tag = unit.Container[1].ImageTag,
                           !.env = env, !.volumes = unit.Volumes, !.ports = unit.Ports]
      [] unit.Type = TypeOneShot ->
            [NoText EXCEPT !.tpl = "one-shot", !.desc = UnitDisplayName(unit),
                           !.image = unit.Container[1].ImageName,
                           !.tag = unit.Container[1].ImageTag,
                           !.env = env, !.volumes = unit.Volumes, !.ports = unit.Ports]
      [] unit.Type = TypeTimer ->
            [NoText EXCEPT !.tpl = "timer", !.desc = UnitDisplayName(unit),
                           !.schedule = unit.Schedule]
      [] OTHER ->
            [NoText EXCEPT !.tpl = "self", !.env = env, !.argv0 = Argv0]

\* WriteUnit: the errors of the rendering and, when there are none, the text.
\* Executing the simple or one-shot template on a unit without a container
\* fails on the nil pointer.
WriteUnit(unit, bag) ==
    LET r == resolveDesiredUnit(unit, bag)
    IN  IF r.errs # {}
        THEN [errs |-> r.errs, text |-> NoText]
        ELSE IF unit.Type \in {TypeSimple, TypeOneShot} /\ unit.Container = <<>>
        THEN [errs |-> {"template"}, text |-> NoText]
        ELSE [errs |-> {}, text |-> ExecuteTemplate(unit, r.Env)]

(***************************************************************************)
(* The differ.                                                             *)
(***************************************************************************)
EmptyDelta ==
    [UnitsToAdd |-> <<>>, UnitsToChange |-> <<>>, UnitsToRestart |-> <<>>,
     UnitsToRemove |-> <<>>, FilesToWrite |-> <<>>, UpdatedContainers |-> <<>>,
     fileContent |-> [p \in {} |-> NilBytes]]

\* desiredByName after the loop over desired.Units: a later unit replaces an
\* earlier one of the same name.
DesiredByName(units) ==
    [n \in {UnitName(units[i]) : i \in DOMAIN units} |->
        LET last == CHOOSE i \in DOMAIN units :
                        /\ UnitName(units[i]) = n
                        /\ \A j \in DOMAIN units : UnitName(units[j]) = n => j <= i
        IN  units[last]]

\* The first loop of Between: the desired files that are absent or different.
FileContentByPath(desired, actual) ==
    LET stale == {p \in DOMAIN desired.Files :
                     \/ p \notin DOMAIN actual.Files
                     \/ ~BytesEqual(desired.Files[p], actual.Files[p])}
    IN  [p \in stale |-> desired.Files[p]]

\* The flags Between computes for an actual unit and its desired namesake.
ImageDiffers(d, a) ==
    /\ d.Container # <<>>
    /\ d.Container[1].ImageID # a.ImageID
    /\ d.Container[1].ImageID # ""

ContentDiffersNever(d, a, bag) == FALSE
ContentDiffers(d, a, bag) ==
    LET w == WriteUnit(d, bag)
    IN  w.errs = {} /\ w.text # a.Content

WillUpdate(d, a, bag) == ImageDiffers(d, a) \/ ContentDiffers(d, a, bag)

MountsWrittenFileNever(d, written) == FALSE
MountsWrittenFile(d, written) == \E hostPath \in DOMAIN d.Volumes : hostPath \in DOMAIN written

ShouldRestart(d, a, bag, written) == WillUpdate(d, a, bag) \/ MountsWrittenFile(d, written)

\* The bucket an actual unit with a desired namesake ends in.
BucketOfNoRestart(d, a, bag, written) ==
    IF WillUpdate(d, a, bag) /\ d.Container # <<>> THEN "change" ELSE "none"
BucketOf(d, a, bag, written) ==
    IF WillUpdate(d, a, bag) /\ d.Container # <<>> THEN "change"
    ELSE IF ShouldRestart(d, a, bag, written) THEN "restart"
    ELSE "none"

\* The loop over actual.Units, from index i on, appending to the buckets in acc.
RECURSIVE ActualLoop(_, _, _, _, _, _)
ActualLoop(i, acc, byName, actualUnits, bag, written) ==
    IF i > Len(actualUnits) THEN acc
    ELSE
        LET a == actualUnits[i]
            n == UnitName(a)
            next ==
                IF n \in DOMAIN byName
                THEN LET d == byName[n]
                         b == BucketOf(d, a, bag, written)
                     IN  [acc EXCEPT
                            !.remaining = [@ EXCEPT ![n] = FALSE],
                            !.change = IF b = "change" THEN Append(@, d) ELSE @,
                            !.updated = IF b = "change" THEN Append(@, d.Container[1]) ELSE @,
                            !.restart = IF b = "restart" THEN Append(@, d) ELSE @]
                ELSE [acc EXCEPT !.remove = Append(@, a)]
        IN  ActualLoop(i + 1, next, byName, actualUnits, bag, written)

\* The orders in which a range over a Go map may visit its keys.
Orders(S) == {o \in [1..Cardinality(S) -> S] : \A x \in S : \E i \in DOMAIN o : o[i] = x}

RECURSIVE SelectInOrder(_, _)
SelectInOrder(order, keep) ==
    IF order = <<>> THEN <<>>
    ELSE IF Head(order) \in keep
         THEN <<Head(order)>> \o SelectInOrder(Tail(order), keep)
         ELSE SelectInOrder(Tail(order), keep)

RECURSIVE MapSeq(_, _)
MapSeq(f, s) == IF s = <<>> THEN <<>> ELSE <<f[Head(s)]>> \o MapSeq(f, Tail(s))

\* Between. fileOrder and nameOrder are the orders in which the ranges over
\* desired.Files and desiredRemaining visit their keys.
BetweenKeepRemaining(desired, actual, bag, fileOrder, nameOrder) ==
    LET written == FileContentByPath(desired, actual)
        byName == DesiredByName(desired.Units)
        start == [remaining |-> [n \in DOMAIN byName |-> TRUE],
                  change |-> <<>>, updated |-> <<>>, restart |-> <<>>, remove |-> <<>>]
        fin == ActualLoop(1, start, byName, actual.Units, bag, written)
    IN  [UnitsToAdd |-> MapSeq(byName, SelectInOrder(nameOrder, DOMAIN byName)),
         UnitsToChange |-> fin.change,
         UnitsToRestart |-> fin.restart,
         UnitsToRemove |-> fin.remove,
         FilesToWrite |-> SelectInOrder(fileOrder, DOMAIN written),
         UpdatedContainers |-> fin.updated,
         fileContent |-> written]
Between(desired, actual, bag, fileOrder, nameOrder) ==
    LET written == FileContentByPath(desired, actual)
        byName == DesiredByName(desired.Units)
        start == [remaining |-> [n \in DOMAIN byName |-> TRUE],
                  change |-> <<>>, updated |-> <<>>, restart |-> <<>>, remove |-> <<>>]
        fin == ActualLoop(1, start, byName, actual.Units, bag, written)
    IN  [UnitsToAdd |-> MapSeq(byName,
                           SelectInOrder(nameOrder, {n \in DOMAIN byName : fin.remaining[n]})),
         UnitsToChange |-> fin.change,
         UnitsToRestart |-> fin.restart,
         UnitsToRemove |-> fin.remove,
         FilesToWrite |-> SelectInOrder(fileOrder, DOMAIN written),
         UpdatedContainers |-> fin.updated,
         fileContent |-> written]

(***************************************************************************)
(* Secrets of a lease, TLS files, and the self-restart gate.               *)
(***************************************************************************)
TLSPaths == {tlsKeysToPath[k] : k \in DOMAIN tlsKeysToPath}
KeyOfPath(p) == CHOOSE k \in DOMAIN tlsKeysToPath : tlsKeysToPath[k] = p

\* Bag.DesiredTLSFiles: fails when one of the three secrets is absent.
DesiredTLSFiles(b) ==
    IF \A k \in DOMAIN tlsKeysToPath : k \in DOMAIN b
    THEN [ok |-> TRUE, files |-> [p \in TLSPaths |-> Bytes(b[KeyOfPath(p)])]]
    ELSE [ok |-> FALSE, files |-> [p \in {} |-> NilBytes]]

\* ActualTLSFiles: the bytes of each TLS file on disk, nil for a missing one.
ActualTLSFiles(files) ==
    [p \in TLSPaths |-> IF p \in DOMAIN files THEN Bytes(files[p]) ELSE NilBytes]

\* SessionLease.GetSecrets: the cached bag, or the bag loaded from the
\* database, which is then cached. cached is the lease's secrets pointer.
GetSecrets(cached, stored, dbOK) ==
    IF cached # <<>> THEN [ok |-> TRUE, bag |-> cached[1], cached |-> cached]
    ELSE IF dbOK THEN [ok |-> TRUE, bag |-> stored, cached |-> <<stored>>]
    ELSE [ok |-> FALSE, bag |-> stored, cached |-> cached]

\* Delta.CoordinatorRestartNeeded: false when the secrets cannot be obtained.
CoordinatorRestartNeeded(d, cached, stored, dbOK) ==
    IF ~GetSecrets(cached, stored, dbOK).ok THEN FALSE
    ELSE \E i \in DOMAIN d.FilesToWrite : IsTLSFile(d.FilesToWrite[i])

(***************************************************************************)
(* Probing the host.                                                       *)
(***************************************************************************)
RefOf(container) == <<container.ImageName, container.ImageTag>>

\* An entry of the list ImageList returns.
ImageSummary(id, created) == [ID |-> id, Created |-> created]

\* The local images that match a reference, in the order Docker lists them.
ImageList(images, ref) == IF ref \in DOMAIN images THEN images[ref] ELSE <<>>

\* The loop over the summaries: an entry replaces the choice when its
\* Created is greater than the highest seen, which starts at 0.
RECURSIVE Highest(_, _, _)
Highest(summaries, id, highest) ==
    IF summaries = <<>> THEN id
    ELSE IF Head(summaries).Created > highest
    THEN Highest(Tail(summaries), Head(summaries).ID, Head(summaries).Created)
    ELSE Highest(Tail(summaries), id, highest)

\* The id the loop picks among the local images of a reference, "" when it
\* picks none.
NewestImage(images, ref) == Highest(ImageList(images, ref), "", 0)

\* ReadActualState: the unit files systemd lists, in the order it lists
\* them, and the TLS files. Image ids are filled in by ReadImages.
ReadActualState(units, files, order) ==
    [Units |-> [i \in DOMAIN order |-> ActualSystemdUnit(order[i], "", units[order[i]])],
     Files |-> ActualTLSFiles(files)]

\* ActualState.ReadImages for one actual unit: the image of the running
\* container named by the desired namesake, else the newest local image.
ActualImageID(a, desiredUnits, images, running) ==
    LET byName == DesiredByName(desiredUnits)
    IN  IF UnitName(a) \notin DOMAIN byName THEN a.ImageID
        ELSE LET d == byName[UnitName(a)]
             IN  IF d.Container = <<>> THEN a.ImageID
                 ELSE IF d.Container[1].Name # "" /\ d.Container[1].Name \in DOMAIN running
                 THEN running[d.Container[1].Name]
                 ELSE IF NewestImage(images, RefOf(d.Container[1])) # ""
                 THEN NewestImage(images, RefOf(d.Container[1]))
                 ELSE a.ImageID

ActualReadImages(act, desiredUnits, images, running) ==
    [act EXCEPT !.Units = [i \in DOMAIN act.Units |->
        [act.Units[i] EXCEPT !.ImageID =
            ActualImageID(act.Units[i], desiredUnits, images, running)]]]

\* The image ids of the desired units left as the catalogue has them.
DesiredReadImagesNever(des, images) == des

\* DesiredState.ReadImages: the newest local image of each unit's reference.
DesiredReadImages(des, images) ==
    [des EXCEPT !.Units = [i \in DOMAIN des.Units |->
        IF des.Units[i].Container = <<>> THEN des.Units[i]
        ELSE IF NewestImage(images, RefOf(des.Units[i].Container[1])) = "" THEN des.Units[i]
        ELSE [des.Units[i] EXCEPT !.Container[1].ImageID =
                 NewestImage(images, RefOf(des.Units[i].Container[1]))]]]

\* The references PullAllImages pulls.
PullRefs(des) ==
    {RefOf(des.Units[i].Container[1]) : i \in
        {j \in DOMAIN des.Units :
            /\ des.Units[j].Container # <<>>
            /\ des.Units[j].Container[1].ImageName # ""
            /\ des.Units[j].Container[1].ImageTag # ""}}

(***************************************************************************)
(* The units, bags and files the model draws its inputs from.              *)
(***************************************************************************)
ImageRef == "quay.io/smashwilson/az-web"
CertMount == [p \in {FilenameTLSCertificate} |-> "/cert.pem"]
PortEnv == [k \in {"PORT"} |-> "8080"]

WebPath == UnitDir \o <<"az-web.service">>
TickPath == UnitDir \o <<"az-tick.timer">>
JobPath == UnitDir \o <<"az-job.service">>
SelfPath == UnitDir \o <<"az-coordinator.service">>
OldPath == UnitDir \o <<"az-old.service">>

WebUnit(imageID) ==
    DesiredSystemdUnit(WebPath, TypeSimple,
        <<DesiredDockerContainer("web", ImageRef, "v1", imageID)>>,
        <<>>, EmptyMap, CertMount, "")
WebUnitPort(imageID) ==
    DesiredSystemdUnit(WebPath, TypeSimple,
        <<DesiredDockerContainer("web", ImageRef, "v1", imageID)>>,
        <<>>, PortEnv, EmptyMap, "")
JobUnit(imageID) ==
    DesiredSystemdUnit(JobPath, TypeOneShot,
        <<DesiredDockerContainer("", ImageRef, "v1", imageID)>>,
        <<"DB_PASS">>, EmptyMap, EmptyMap, "")
TickUnit(schedule) ==
    DesiredSystemdUnit(TickPath, TypeTimer, <<>>, <<>>, EmptyMap, EmptyMap, schedule)
SelfUnit ==
    DesiredSystemdUnit(SelfPath, TypeSelf, <<>>, <<>>, PortEnv, CertMount, "")

\* A second service, run from an image of its own.
ApiImage == "quay.io/smashwilson/az-api"
ApiPath == UnitDir \o <<"az-api.service">>
ApiUnit(imageID) ==
    DesiredSystemdUnit(ApiPath, TypeSimple,
        <<DesiredDockerContainer("api", ApiImage, "v1", imageID)>>,
        <<>>, EmptyMap, EmptyMap, "")

NewPEM == <<1>>
OldPEM == <<2>>

TLSKeys == DOMAIN tlsKeysToPath
FullBag == [k \in TLSKeys \cup {"DB_PASS"} |-> IF k = "DB_PASS" THEN <<7>> ELSE NewPEM]
NoPassBag == [k \in TLSKeys |-> NewPEM]
NoKeyBag == [k \in {"TLS_CERTIFICATE", "TLS_DH_PARAMS", "DB_PASS"} |->
                IF k = "DB_PASS" THEN <<7>> ELSE NewPEM]

\* The text WriteUnit produces for a unit when every secret is known.
TextOf(unit) == WriteUnit(unit, FullBag).text

\* Sequences over S of length at most n.
SeqsUpTo(S, n) == UNION {[1..k -> S] : k \in 0..n}

NoFiles == [p \in {} |-> NilBytes]

DesiredUnitPool ==
    {WebUnit("sha256:a"), WebUnitPort("sha256:b"), JobUnit("sha256:a"), JobUnit("sha256:b"),
     TickUnit("daily"), TickUnit("hourly"), SelfUnit}
ActualUnitPool ==
    {ActualSystemdUnit(WebPath, "sha256:a", TextOf(WebUnit(""))),
     ActualSystemdUnit(VendorDir \o <<"az-web.service">>, "sha256:a", ForeignText),
     ActualSystemdUnit(JobPath, "sha256:a", TextOf(JobUnit(""))),
     ActualSystemdUnit(TickPath, "", TextOf(TickUnit("daily"))),
     ActualSystemdUnit(OldPath, "", ForeignText)}
DesiredFilesPool ==
    {NoFiles,
     [p \in {FilenameTLSCertificate} |-> Bytes(NewPEM)],
     [p \in {FilenameTLSCertificate, FilenameDHParams} |->
         IF p = FilenameDHParams THEN Bytes(<<>>) ELSE Bytes(NewPEM)]}
ActualFilesPool ==
    {NoFiles,
     [p \in {FilenameTLSCertificate} |-> Bytes(NewPEM)],
     [p \in {FilenameTLSCertificate, FilenameDHParams} |-> NilBytes]}

(***************************************************************************)
(* State.                                                                  *)
(***************************************************************************)
VARIABLES
    pc,            \* the position of the operation in progress
    bag,           \* the secrets stored in the database, as the session reads them
    desired,       \* the DesiredState given to Between
    actual,        \* the ActualState given to Between
    delta,         \* the Delta returned by Between
    dbUnits,       \* the rows of state_systemd_units
    hostUnits,     \* the unit files on disk: path -> text
    hostFiles,     \* the TLS files on disk: path -> bytes
    images,        \* the local image store: reference -> summaries of the matching images
    downloadedNewer, \* the references whose local image a pull replaced
    registry,      \* the registry: reference -> id of the published image
    containers,    \* the running containers: name -> image id
    leaseSecrets,  \* the lease's cached bag, a pointer
    errs,          \* the errors accumulated by the operation in progress
    restartUnits,  \* Apply's restartUnits
    needsReload,   \* Apply's needsReload
    applied,       \* Apply has reached its last step
    restartNeeded, \* what CoordinatorRestartNeeded returned to Apply
    result,        \* what Synchronize returned
    redelta,       \* the Delta of a second Between on the re-probed host, a pointer
    ops,           \* the init-system calls issued by Apply, in order
    faults         \* the number of failures injected so far

diffVars == <<bag, desired, actual, delta>>
hostVars == <<dbUnits, hostUnits, hostFiles, images, downloadedNewer, registry, containers>>
applyVars == <<leaseSecrets, errs, restartUnits, needsReload, applied, restartNeeded,
               result, redelta, ops, faults>>

VARIABLES
    table,         \* the rows of the secrets table, in insertion order
    wrappedLen,    \* the length of the wrapped data keys the KMS hands out
    saveBag,       \* the bag given to SaveToDatabase
    truncating,    \* SaveToDatabase's truncate argument
    saveOK,        \* SaveToDatabase committed
    loadedBag,     \* what LoadFromDatabase returned, a pointer
    skippedRows,   \* the rows LoadFromDatabase logged as skipped
    lastCall,      \* the call that saved: its arguments, the bag it loaded, the table before
    cryptoOK,      \* every Encrypt and Decrypt of the run succeeded so far
    plaintext,     \* the plaintext given to Encrypt
    envelope,      \* what Encrypt returned
    recovered      \* what Decrypt returned

secretVars == <<table, wrappedLen, saveBag, truncating, saveOK, loadedBag, skippedRows, lastCall,
                cryptoOK,
                plaintext, envelope, recovered>>

VARIABLES
    unit,          \* the unit of the DesiredSystemdUnitBuilder
    tried,         \* the setter errors collected by the caller
    calls,         \* the number of setter calls made so far
    built          \* what Build returned

builderVars == <<unit, tried, calls, built>>

VARIABLES
    currentSync,   \* the server's syncProgress
    hpc,           \* the position of each POST /sync handler
    starting,      \* what request() returned to each handler
    response,      \* the body each handler wrote
    workers,       \* the position of each performSync goroutine
    granted,       \* the number of request() calls that returned true
    terminals,     \* the number of setErrors and setDelta calls
    alive          \* the process is running

syncVars == <<currentSync, hpc, starting, response, workers, granted, terminals, alive>>

VARIABLES
    idx,           \* Apply's position in the loop it is running
    chans,         \* the channels stops, starts and restarts: the completions in each
    jobs,          \* the jobs the init system accepted and has not completed
    received,      \* the completions Apply received from each channel
    issued,        \* every operation Apply attempted, in order
    returned       \* the error list Apply returned, a pointer

fanVars == <<idx, chans, jobs, received, issued, returned>>

VARIABLES
    low,           \* the pool's low-water count
    available,     \* the pool's entries, each a session and its used flag
    lock,          \* the caller that holds the pool's mutex, 0 when it is free
    callers,       \* each caller's position, and the session its lease wraps
    closed,        \* the sessions that were closed
    created        \* the number of sessions the creator made

poolVars == <<low, available, lock, callers, closed, created>>

VARIABLES
    loads,         \* the number of bags LoadFromDatabase returned within the lease
    accesses       \* the calls made through the lease and where each got its bag

leaseVars == <<loads, accesses>>

coreVars == <<diffVars, hostVars, applyVars>>
extraVars == <<fanVars, poolVars, leaseVars>>
auxVars == <<secretVars, builderVars, syncVars, extraVars>>

vars == <<pc, coreVars, auxVars>>

NoResult == [delta |-> <<>>, errs |-> <<>>]

HostIdle ==
    /\ dbUnits = <<>>
    /\ hostUnits = [p \in {} |-> NoText]
    /\ hostFiles = [p \in {} |-> <<>>]
    /\ images = [r \in {} |-> <<>>]
    /\ downloadedNewer = {}
    /\ registry = [r \in {} |-> ""]
    /\ containers = [c \in {} |-> ""]

ApplyIdle ==
    /\ leaseSecrets = <<>>
    /\ errs = <<>>
    /\ restartUnits = <<>>
    /\ needsReload = FALSE
    /\ applied = FALSE
    /\ restartNeeded = FALSE
    /\ result = NoResult
    /\ redelta = <<>>
    /\ ops = <<>>
    /\ faults = 0

NoBytes == <<>>

NoCall == [op |-> "none", arg |-> {}, held |-> {}, before |-> <<>>]

SecretsIdle ==
    /\ table = <<>>
    /\ wrappedLen = 0
    /\ saveBag = [k \in {} |-> NoBytes]
    /\ truncating = FALSE
    /\ saveOK = FALSE
    /\ loadedBag = <<>>
    /\ skippedRows = {}
    /\ lastCall = NoCall
    /\ cryptoOK = TRUE
    /\ plaintext = NoBytes
    /\ envelope = <<>>
    /\ recovered = <<>>

BuilderIdle ==
    /\ unit = <<>>
    /\ tried = 0
    /\ calls = 0
    /\ built = <<>>

SyncIdle ==
    /\ currentSync = [inProgress |-> FALSE, delta |-> <<>>, errs |-> <<>>]
    /\ hpc = <<>>
    /\ starting = <<>>
    /\ response = <<>>
    /\ workers = <<>>
    /\ granted = 0
    /\ terminals = 0
    /\ alive = TRUE

FanIdle ==
    /\ idx = 0
    /\ chans = <<>>
    /\ jobs = {}
    /\ received = <<>>
    /\ issued = <<>>
    /\ returned = <<>>

PoolIdle ==
    /\ low = 0
    /\ available = <<>>
    /\ lock = 0
    /\ callers = <<>>
    /\ closed = {}
    /\ created = 0

LeaseIdle ==
    /\ loads = 0
    /\ accesses = <<>>

ExtraIdle == FanIdle /\ PoolIdle /\ LeaseIdle

AuxIdle == SecretsIdle /\ BuilderIdle /\ SyncIdle /\ ExtraIdle

(***************************************************************************)
(* Between applied to arbitrary desired and actual states.                 *)
(***************************************************************************)
InitBetween ==
    /\ pc = "input"
    /\ bag \in {FullBag, NoPassBag}
    /\ desired \in [Units : SeqsUpTo(DesiredUnitPool, MaxDesired), Files : DesiredFilesPool]
    /\ actual \in [Units : SeqsUpTo(ActualUnitPool, MaxActual), Files : ActualFilesPool]
    /\ delta = EmptyDelta
    /\ HostIdle
    /\ ApplyIdle
    /\ AuxIdle

CallBetween ==
    /\ pc = "input"
    /\ \E fileOrder \in Orders(DOMAIN desired.Files) :
       \E nameOrder \in Orders(DOMAIN DesiredByName(desired.Units)) :
           delta' = Between(desired, actual, bag, fileOrder, nameOrder)
    /\ pc' = "output"
    /\ UNCHANGED <<bag, desired, actual, hostVars, applyVars, auxVars>>

\* A second call of Between with the same desired state, actual state and
\* secrets.
RecallBetween ==
    /\ pc = "output"
    /\ \E fileOrder \in Orders(DOMAIN desired.Files) :
       \E nameOrder \in Orders(DOMAIN DesiredByName(desired.Units)) :
           redelta' = <<Between(desired, actual, bag, fileOrder, nameOrder)>>
    /\ pc' = "again"
    /\ UNCHANGED <<bag, desired, actual, delta, hostVars, leaseSecrets, errs, restartUnits,
                   needsReload, applied, restartNeeded, result, ops, faults, auxVars>>

NextBetween == CallBetween \/ RecallBetween

SpecBetween == InitBetween /\ [][NextBetween]_vars

(***************************************************************************)
(* Synchronize: read the desired and the actual state, pull, diff, apply.  *)
(***************************************************************************)
\* Contents of the state_systemd_units table, in the order the query returns
\* the rows; the table has no uniqueness constraint on the path.
CatalogueScenarios ==
    {<<>>,
     <<WebUnit("")>>,
     <<WebUnitPort(""), TickUnit("hourly")>>,
     <<TickUnit("daily"), WebUnit("")>>,
     <<JobUnit(""), SelfUnit>>,
     <<WebUnit(""), WebUnitPort("")>>,
     <<WebUnit(""), ApiUnit("")>>}

HostTextOf ==
    [p \in {WebPath, TickPath, JobPath, OldPath} |->
        CASE p = WebPath -> TextOf(WebUnit(""))
          [] p = TickPath -> TextOf(TickUnit("daily"))
          [] p = JobPath -> TextOf(JobUnit(""))
          [] OTHER -> ForeignText]

\* Unit files found on the host before the run.
HostUnitScenarios ==
    {[p \in S |-> HostTextOf[p]] :
        S \in {{}, {WebPath, TickPath}, {WebPath, OldPath}, {JobPath, TickPath}}}

AllFiles(b) == [p \in TLSPaths |-> b]

\* The stored secrets with the TLS files on the host.
SecretScenarios ==
    {[bag |-> FullBag, files |-> AllFiles(NewPEM)],
     [bag |-> FullBag, files |-> [AllFiles(NewPEM) EXCEPT ![FilenameTLSCertificate] = OldPEM]],
     [bag |-> FullBag, files |-> [p \in {FilenameTLSKey} |-> NewPEM]],
     [bag |-> NoPassBag, files |-> [AllFiles(NewPEM) EXCEPT ![FilenameDHParams] = OldPEM]],
     [bag |-> NoKeyBag, files |-> AllFiles(NewPEM)]}

\* The creation time of the images the registry publishes.
PulledCreated == 2

WebRef == <<ImageRef, "v1">>
ApiRef == <<ApiImage, "v1">>
Published(webID) == [r \in {WebRef, ApiRef} |-> IF r = WebRef THEN webID ELSE "sha256:c"]

\* Local images, downloadedNewer, registry and running containers before the run.
DockerScenarios ==
    {[images |-> [r \in {WebRef} |-> <<ImageSummary("sha256:a", 1)>>],
      registry |-> Published("sha256:b"),
      containers |-> [c \in {"web"} |-> "sha256:a"]],
     [images |-> [r \in {} |-> <<>>], registry |-> Published("sha256:a"),
      containers |-> [c \in {} |-> ""]],
     [images |-> [r \in {WebRef} |-> <<ImageSummary("sha256:a", 1)>>],
      registry |-> Published("sha256:b"),
      containers |-> [c \in {"web"} |-> "sha256:b"]]}

Init ==
    /\ pc = "start"
    /\ dbUnits \in CatalogueScenarios
    /\ hostUnits \in HostUnitScenarios
    /\ \E sc \in SecretScenarios : bag = sc.bag /\ hostFiles = sc.files
    /\ \E dk \in DockerScenarios :
          images = dk.images /\ registry = dk.registry /\ containers = dk.containers
    /\ downloadedNewer = {}
    /\ desired = [Units |-> <<>>, Files |-> NoFiles]
    /\ actual = [Units |-> <<>>, Files |-> NoFiles]
    /\ delta = EmptyDelta
    /\ ApplyIdle
    /\ AuxIdle

Err(op, item) == [op |-> op, item |-> item]

Elems(s) == {s[i] : i \in DOMAIN s}

\* The sets of items of a phase that may fail within the failure budget.
Faulty(items) == {F \in SUBSET items : faults + Cardinality(F) <= MaxFaults}

RECURSIVE SetToSeq(_)
SetToSeq(S) == IF S = {} THEN <<>> ELSE LET x == CHOOSE y \in S : TRUE
                                        IN  <<x>> \o SetToSeq(S \ {x})

\* One error per failed item of a phase, in the order of the items.
RECURSIVE PhaseErrs(_, _, _)
PhaseErrs(op, items, failed) ==
    IF items = <<>> THEN <<>>
    ELSE (IF Head(items) \in failed THEN <<Err(op, Head(items))>> ELSE <<>>)
         \o PhaseErrs(op, Tail(items), failed)

\* Synchronize returns early with the errors of a step that failed.
Fail(es) ==
    /\ errs' = errs \o es
    /\ result' = [delta |-> <<>>, errs |-> errs \o es]
    /\ pc' = "failed"

\* ReadDesiredState runs on a copy of the lease (value receiver), so the bag
\* it loads is not cached in the caller's lease.
ReadDesiredStateStep ==
    /\ pc = "start"
    /\ \E dbOK, unitsOK \in BOOLEAN :
          LET g == GetSecrets(leaseSecrets, bag, dbOK)
              f == DesiredTLSFiles(g.bag)
          IN  IF ~g.ok THEN Fail(<<Err("GetSecrets", "db")>>) /\ UNCHANGED desired
              ELSE IF ~unitsOK THEN Fail(<<Err("readDesiredUnits", "db")>>) /\ UNCHANGED desired
              ELSE IF ~f.ok THEN Fail(<<Err("DesiredTLSFiles", "missing")>>) /\ UNCHANGED desired
              ELSE /\ desired' = [Units |-> dbUnits, Files |-> f.files]
                   /\ pc' = "read_actual"
                   /\ UNCHANGED <<errs, result>>
    /\ UNCHANGED <<bag, actual, delta, hostVars, leaseSecrets, restartUnits, needsReload,
                   applied, restartNeeded, redelta, ops, faults>>
    /\ UNCHANGED auxVars

ReadActualStateStep ==
    /\ pc = "read_actual"
    /\ \E ok \in BOOLEAN :
          IF ~ok
          THEN Fail(<<Err("ReadActualState", "bus"), Err("Synchronize", "unable to read system state")>>)
               /\ UNCHANGED actual
          ELSE /\ \E order \in Orders(DOMAIN hostUnits) :
                      actual' = ReadActualState(hostUnits, hostFiles, order)
               /\ pc' = "actual_images"
               /\ UNCHANGED <<errs, result>>
    /\ UNCHANGED <<bag, desired, delta, hostVars, leaseSecrets, restartUnits, needsReload,
                   applied, restartNeeded, redelta, ops, faults>>
    /\ UNCHANGED auxVars

ActualReadImagesStep ==
    /\ pc = "actual_images"
    /\ \E ok \in BOOLEAN :
          IF ~ok
          THEN Fail(<<Err("ReadImages", "docker"), Err("Synchronize", "unable to read original images")>>)
               /\ UNCHANGED actual
          ELSE /\ actual' = ActualReadImages(actual, desired.Units, images, containers)
               /\ pc' = "pull"
               /\ UNCHANGED <<errs, result>>
    /\ UNCHANGED <<bag, desired, delta, hostVars, leaseSecrets, restartUnits, needsReload,
                   applied, restartNeeded, redelta, ops, faults>>
    /\ UNCHANGED auxVars

\* PullAllImages: every reference is pulled and the error of each failed pull
\* is collected; Synchronize returns early when there is one.
PullAllImagesStep ==
    /\ pc = "pull"
    /\ \E failed \in SUBSET PullRefs(desired) :
          LET pulled == PullRefs(desired) \ failed
          IN  /\ images' = [r \in DOMAIN images \cup pulled |->
                               IF r \in pulled THEN <<ImageSummary(registry[r], PulledCreated)>>
                               ELSE images[r]]
              /\ downloadedNewer' =
                    {r \in pulled : NewestImage(images, r) \notin {"", registry[r]}}
              /\ IF failed # {}
                 THEN Fail(PhaseErrs("pullImage", SetToSeq(PullRefs(desired)), failed)
                           \o <<Err("Synchronize", "pull errors")>>)
                 ELSE pc' = "desired_images" /\ UNCHANGED <<errs, result>>
    /\ UNCHANGED <<diffVars, dbUnits, hostUnits, hostFiles, registry, containers, leaseSecrets,
                   restartUnits, needsReload, applied, restartNeeded, redelta, ops, faults>>
    /\ UNCHANGED auxVars

DesiredReadImagesStep ==
    /\ pc = "desired_images"
    /\ \E ok \in BOOLEAN :
          IF ~ok
          THEN Fail(<<Err("ReadImages", "docker"), Err("Synchronize", "unable to pull docker images")>>)
               /\ UNCHANGED desired
          ELSE /\ desired' = DesiredReadImages(desired, images)
               /\ pc' = "between"
               /\ UNCHANGED <<errs, result>>
    /\ UNCHANGED <<bag, actual, delta, hostVars, leaseSecrets, restartUnits, needsReload,
                   applied, restartNeeded, redelta, ops, faults>>
    /\ UNCHANGED auxVars

BetweenStep ==
    /\ pc = "between"
    /\ \E fileOrder \in Orders(DOMAIN desired.Files) :
       \E nameOrder \in Orders(DOMAIN DesiredByName(desired.Units)) :
           delta' = Between(desired, actual, bag, fileOrder, nameOrder)
    /\ pc' = "apply_files"
    /\ UNCHANGED <<bag, desired, actual, hostVars, applyVars>>
    /\ UNCHANGED auxVars

(***************************************************************************)
(* Delta.Apply, phase by phase.                                            *)
(***************************************************************************)
\* Writing rendered unit files: a failed open leaves the file alone; an open
\* truncates, so a unit that cannot be rendered is left empty.
RECURSIVE WriteUnitFiles(_, _, _, _)
WriteUnitFiles(files, units, failedOpen, b) ==
    IF units = <<>> THEN files
    ELSE LET u == Head(units)
             w == WriteUnit(u, b)
             written == [p \in DOMAIN files \cup {u.Path} |->
                            IF p = u.Path THEN w.text ELSE files[p]]
         IN  WriteUnitFiles(IF u \in failedOpen THEN files ELSE written,
                            Tail(units), failedOpen, b)

RECURSIVE WriteUnitErrs(_, _, _, _)
WriteUnitErrs(op, units, failedOpen, b) ==
    IF units = <<>> THEN <<>>
    ELSE LET u == Head(units)
         IN  (IF u \in failedOpen THEN <<Err(op, u.Path)>>
              ELSE [i \in 1..Cardinality(WriteUnit(u, b).errs) |-> Err("WriteUnit", u.Path)])
             \o WriteUnitErrs(op, Tail(units), failedOpen, b)

\* What starting or restarting a unit does to the containers: a simple unit
\* replaces its container by one of the newest local image (fetched from the
\* registry when there is none).
RECURSIVE StartUnits(_, _, _, _, _)
StartUnits(running, names, failed, files, imgs) ==
    IF names = <<>> THEN running
    ELSE LET n == Head(names)
             path == UnitDir \o <<n>>
             text == IF path \in DOMAIN files THEN files[path] ELSE NoText
             ref == <<text.image, text.tag>>
             id == IF NewestImage(imgs, ref) # "" THEN NewestImage(imgs, ref)
                   ELSE IF ref \in DOMAIN registry THEN registry[ref] ELSE ""
             started == [c \in DOMAIN running \cup {text.cname} |->
                            IF c = text.cname THEN id ELSE running[c]]
         IN  StartUnits(IF n \notin failed /\ text.tpl = "simple" /\ id # "" THEN started ELSE running,
                        Tail(names), failed, files, imgs)

\* What stopping units does: the container of a simple unit goes away.
StopUnits(running, units) ==
    LET gone == {units[i].Content.cname : i \in {j \in DOMAIN units : units[j].Content.tpl = "simple"}}
    IN  [c \in DOMAIN running \ gone |-> running[c]]

Calls(op, items) == [i \in DOMAIN items |-> <<op, items[i]>>]
UnitNames(units) == [i \in DOMAIN units |-> UnitName(units[i])]
UnitPaths(units) == [i \in DOMAIN units |-> units[i].Path]

ApplyWriteFiles ==
    /\ pc = "apply_files"
    /\ \E failed \in Faulty(DOMAIN delta.fileContent) :
          LET done == DOMAIN delta.fileContent \ failed
          IN  /\ hostFiles' = [p \in DOMAIN hostFiles \cup done |->
                                  IF p \in done THEN delta.fileContent[p].bytes ELSE hostFiles[p]]
              /\ errs' = errs \o PhaseErrs("WriteFile", SetToSeq(DOMAIN delta.fileContent), failed)
              /\ faults' = faults + Cardinality(failed)
    /\ pc' = "apply_create"
    /\ UNCHANGED <<diffVars, dbUnits, hostUnits, images, downloadedNewer, registry, containers, leaseSecrets,
                   restartUnits, needsReload, applied, restartNeeded, result, redelta, ops>>
    /\ UNCHANGED auxVars

ApplyCreateUnits ==
    /\ pc = "apply_create"
    /\ \E failed \in Faulty(Elems(delta.UnitsToAdd)) :
          /\ hostUnits' = WriteUnitFiles(hostUnits, delta.UnitsToAdd, failed, bag)
          /\ errs' = errs \o WriteUnitErrs("OpenFile", delta.UnitsToAdd, failed, bag)
          /\ faults' = faults + Cardinality(failed)
    /\ needsReload' = (delta.UnitsToAdd # <<>>)
    /\ pc' = "apply_change"
    /\ UNCHANGED <<diffVars, dbUnits, hostFiles, images, downloadedNewer, registry, containers, leaseSecrets,
                   restartUnits, applied, restartNeeded, result, redelta, ops>>
    /\ UNCHANGED auxVars

\* Rewrites the changed units and collects the names to restart: those of
\* UnitsToChange, then those of UnitsToRestart.
ApplyChangeUnits ==
    /\ pc = "apply_change"
    /\ \E failed \in Faulty(Elems(delta.UnitsToChange)) :
          /\ hostUnits' = WriteUnitFiles(hostUnits, delta.UnitsToChange, failed, bag)
          /\ errs' = errs \o WriteUnitErrs("OpenFile", delta.UnitsToChange, failed, bag)
          /\ faults' = faults + Cardinality(failed)
    /\ needsReload' = (needsReload \/ delta.UnitsToChange # <<>>)
    /\ restartUnits' = UnitNames(delta.UnitsToChange) \o UnitNames(delta.UnitsToRestart)
    /\ pc' = "apply_stop"
    /\ UNCHANGED <<diffVars, dbUnits, hostFiles, images, downloadedNewer, registry, containers, leaseSecrets,
                   applied, restartNeeded, result, redelta, ops>>
    /\ UNCHANGED auxVars

\* Stops (or kills) and disables the units to remove.
ApplyStopUnits ==
    /\ pc = "apply_stop"
    /\ IF delta.UnitsToRemove = <<>>
       THEN UNCHANGED <<containers, errs, faults, ops>>
       ELSE \E failed \in Faulty(Elems(UnitNames(delta.UnitsToRemove)) \cup {"DisableUnitFiles"}) :
               /\ containers' = StopUnits(containers, delta.UnitsToRemove)
               /\ errs' = errs \o PhaseErrs("StopUnit", UnitNames(delta.UnitsToRemove), failed)
                               \o PhaseErrs("DisableUnitFiles", <<"DisableUnitFiles">>, failed)
               /\ faults' = faults + Cardinality(failed)
               /\ ops' = ops \o Calls("StopUnit", UnitNames(delta.UnitsToRemove))
                             \o <<<<"DisableUnitFiles", UnitNames(delta.UnitsToRemove)>>>>
    /\ pc' = "apply_reload"
    /\ UNCHANGED <<diffVars, dbUnits, hostUnits, hostFiles, images, downloadedNewer, registry, leaseSecrets,
                   restartUnits, needsReload, applied, restartNeeded, result, redelta>>
    /\ UNCHANGED auxVars

\* Reloads when a unit file was written; a failed reload ends Apply.
ApplyReload ==
    /\ pc = "apply_reload"
    /\ IF ~needsReload
       THEN pc' = "apply_start" /\ UNCHANGED <<errs, faults, ops>>
       ELSE \E failed \in Faulty({"Reload"}) :
               /\ errs' = errs \o PhaseErrs("Reload", <<"Reload">>, failed)
               /\ faults' = faults + Cardinality(failed)
               /\ ops' = Append(ops, <<"Reload", "">>)
               /\ pc' = IF failed # {} THEN "apply_returned" ELSE "apply_start"
    /\ UNCHANGED <<diffVars, hostVars, leaseSecrets, restartUnits, needsReload, applied,
                   restartNeeded, result, redelta>>
    /\ UNCHANGED auxVars

ApplyStartUnits ==
    /\ pc = "apply_start"
    /\ IF delta.UnitsToAdd = <<>>
       THEN UNCHANGED <<containers, errs, faults, ops>>
       ELSE \E failed \in Faulty(Elems(UnitNames(delta.UnitsToAdd)) \cup {"EnableUnitFiles"}) :
               /\ containers' = StartUnits(containers, UnitNames(delta.UnitsToAdd), failed,
                                           hostUnits, images)
               /\ errs' = errs \o PhaseErrs("StartUnit", UnitNames(delta.UnitsToAdd), failed)
                               \o PhaseErrs("EnableUnitFiles", <<"EnableUnitFiles">>, failed)
               /\ faults' = faults + Cardinality(failed)
               /\ ops' = ops \o Calls("StartUnit", UnitNames(delta.UnitsToAdd))
                             \o <<<<"EnableUnitFiles", UnitPaths(delta.UnitsToAdd)>>>>
    /\ pc' = "apply_restart"
    /\ UNCHANGED <<diffVars, dbUnits, hostUnits, hostFiles, images, downloadedNewer, registry, leaseSecrets,
                   restartUnits, needsReload, applied, restartNeeded, result, redelta>>
    /\ UNCHANGED auxVars

ApplyRestartUnits ==
    /\ pc = "apply_restart"
    /\ \E failed \in Faulty(Elems(restartUnits)) :
          /\ containers' = StartUnits(containers, restartUnits, failed, hostUnits, images)
          /\ errs' = errs \o PhaseErrs("RestartUnit", restartUnits, failed)
          /\ faults' = faults + Cardinality(failed)
    /\ ops' = ops \o Calls("RestartUnit", restartUnits)
    /\ pc' = "apply_remove"
    /\ UNCHANGED <<diffVars, dbUnits, hostUnits, hostFiles, images, downloadedNewer, registry, leaseSecrets,
                   restartUnits, needsReload, applied, restartNeeded, result, redelta>>
    /\ UNCHANGED auxVars

ApplyRemoveFiles ==
    /\ pc = "apply_remove"
    /\ \E failed \in Faulty(Elems(UnitPaths(delta.UnitsToRemove))) :
          /\ hostUnits' = [p \in DOMAIN hostUnits \ (Elems(UnitPaths(delta.UnitsToRemove)) \ failed)
                              |-> hostUnits[p]]
          /\ errs' = errs \o PhaseErrs("Remove", UnitPaths(delta.UnitsToRemove), failed)
          /\ faults' = faults + Cardinality(failed)
    /\ pc' = "apply_gate"
    /\ UNCHANGED <<diffVars, dbUnits, hostFiles, images, downloadedNewer, registry, containers, leaseSecrets,
                   restartUnits, needsReload, applied, restartNeeded, result, redelta, ops>>
    /\ UNCHANGED auxVars

\* The self-restart gate: os.Exit(0) when CoordinatorRestartNeeded.
ApplyGate ==
    /\ pc = "apply_gate"
    /\ \E dbOK \in BOOLEAN :
          /\ restartNeeded' = CoordinatorRestartNeeded(delta, leaseSecrets, bag, dbOK)
          /\ leaseSecrets' = GetSecrets(leaseSecrets, bag, dbOK).cached
    /\ applied' = TRUE
    /\ pc' = IF restartNeeded' THEN "exited" ELSE "apply_returned"
    /\ UNCHANGED <<diffVars, hostVars, errs, restartUnits, needsReload, result, redelta,
                   ops, faults>>
    /\ UNCHANGED auxVars

\* Synchronize returns the Delta, or the errors of Apply without the Delta.
SynchronizeReturn ==
    /\ pc = "apply_returned"
    /\ IF errs # <<>>
       THEN /\ result' = [delta |-> <<>>,
                          errs |-> Append(errs, Err("Synchronize", "unable to apply delta"))]
            /\ pc' = "failed"
       ELSE /\ result' = [delta |-> <<delta>>, errs |-> <<>>]
            /\ pc' = "done"
    /\ UNCHANGED <<diffVars, hostVars, leaseSecrets, errs, restartUnits, needsReload, applied,
                   restartNeeded, redelta, ops, faults>>
    /\ UNCHANGED auxVars

\* A later probe of the host and a second Between with the same desired state.
Reprobe ==
    /\ pc \in {"done", "failed", "exited"}
    /\ applied
    /\ \E order \in Orders(DOMAIN hostUnits) :
       \E fileOrder \in Orders(DOMAIN desired.Files) :
       \E nameOrder \in Orders(DOMAIN DesiredByName(desired.Units)) :
           redelta' = <<Between(desired,
                                ActualReadImages(ReadActualState(hostUnits, hostFiles, order),
                                                 desired.Units, images, containers),
                                bag, fileOrder, nameOrder)>>
    /\ pc' = "reprobed"
    /\ UNCHANGED <<diffVars, hostVars, leaseSecrets, errs, restartUnits, needsReload, applied,
                   restartNeeded, result, ops, faults>>
    /\ UNCHANGED auxVars

Next ==
    \/ ReadDesiredStateStep
    \/ ReadActualStateStep
    \/ ActualReadImagesStep
    \/ PullAllImagesStep
    \/ DesiredReadImagesStep
    \/ BetweenStep
    \/ ApplyWriteFiles
    \/ ApplyCreateUnits
    \/ ApplyChangeUnits
    \/ ApplyStopUnits
    \/ ApplyReload
    \/ ApplyStartUnits
    \/ ApplyRestartUnits
    \/ ApplyRemoveFiles
    \/ ApplyGate
    \/ SynchronizeReturn
    \/ Reprobe

Spec == Init /\ [][Next]_vars

(***************************************************************************)
(* The decoder ring: envelope encryption with KMS data keys.               *)
(***************************************************************************)
MaxPlain == 2
KeyCiphertextLen == 168
NonceSize == 12
TagSize == 16

ByteValues == {0, 65, 255}
DataKeys == {3, 5}
NonceBytes == {0, 9}
WrappedLens == {KeyCiphertextLen - 1, KeyCiphertextLen, KeyCiphertextLen + 1}

Repeat(b, n) == [i \in 1..n |-> b]
Failed == [ok |-> FALSE, bytes |-> NoBytes]

\* KMS GenerateDataKey: a data key and its wrapped form, n bytes long.
GenerateDataKey(k, n) == [Plaintext |-> k, CiphertextBlob |-> Repeat(k, n)]

\* KMS Decrypt: unwraps what GenerateDataKey wrapped and nothing else.
KMSDecrypt(blob, n, up) ==
    IF up /\ \E k \in DataKeys : blob = Repeat(k, n)
    THEN [ok |-> TRUE, Plaintext |-> CHOOSE k \in DataKeys : blob = Repeat(k, n)]
    ELSE [ok |-> FALSE, Plaintext |-> 0]

\* AES-GCM: Seal appends the sealed bytes and the tag to dst; Open checks
\* the tag under the same key and nonce.
GCMTag(k, nonce, n) == Repeat((k + nonce[1] + n) % 256, TagSize)
GCMSealDroppingDst(dst, k, nonce, p) ==
    [i \in 1..Len(p) |-> (p[i] + k + nonce[1]) % 256] \o GCMTag(k, nonce, Len(p))
GCMSeal(dst, k, nonce, p) ==
    dst \o [i \in 1..Len(p) |-> (p[i] + k + nonce[1]) % 256] \o GCMTag(k, nonce, Len(p))
GCMOpen(k, nonce, c) ==
    IF Len(c) < TagSize THEN Failed
    ELSE LET n == Len(c) - TagSize
         IN  IF SubSeq(c, n + 1, Len(c)) # GCMTag(k, nonce, n) THEN Failed
             ELSE [ok |-> TRUE,
                   bytes |-> [i \in 1..n |-> (c[i] + 512 - k - nonce[1]) % 256]]

\* DecoderRing.Encrypt: wrapped key, then nonce, then GCM ciphertext.
Encrypt(p, k, nonce, n, up) ==
    IF ~up THEN Failed
    ELSE LET dataKeyResult == GenerateDataKey(k, n)
         IN  [ok |-> TRUE,
              bytes |-> dataKeyResult.CiphertextBlob
                            \o GCMSeal(nonce, dataKeyResult.Plaintext, nonce, p)]

\* DecoderRing.Decrypt: takes the first 168 bytes for the wrapped key.
Decrypt(c, n, up) ==
    IF Len(c) < KeyCiphertextLen THEN Failed
    ELSE LET decryptResult == KMSDecrypt(SubSeq(c, 1, KeyCiphertextLen), n, up)
         IN  IF ~decryptResult.ok THEN Failed
             ELSE IF Len(c) < KeyCiphertextLen + NonceSize THEN Failed
             ELSE GCMOpen(decryptResult.Plaintext,
                          SubSeq(c, KeyCiphertextLen + 1, KeyCiphertextLen + NonceSize),
                          SubSeq(c, KeyCiphertextLen + NonceSize + 1, Len(c)))

(***************************************************************************)
(* The secrets table.                                                      *)
(***************************************************************************)
SecretKeys == {"A", "B"}
OldValue == <<65>>
NewValue == <<0, 255>>
SecretValues == {OldValue, NewValue}
Bags == UNION {[K -> SecretValues] : K \in SUBSET SecretKeys}

Row(key, value, k, nb, n) ==
    [key |-> key, ciphertext |-> Encrypt(value, k, Repeat(nb, NonceSize), n, TRUE).bytes]

\* Tables an earlier run leaves behind; SetSecrets appends without truncating.
PriorTables(n) ==
    {<<>>,
     <<Row("A", OldValue, 3, 0, n)>>,
     <<Row("A", OldValue, 3, 0, n), Row("B", OldValue, 5, 9, n)>>,
     <<Row("A", OldValue, 3, 0, n), Row("A", NewValue, 5, 0, n)>>,
     <<[key |-> "B", ciphertext |-> <<1, 2, 3>>]>>}

\* The rows SaveToDatabase inserts: one per secret that could be encrypted, in
\* the iteration order of the map.
RECURSIVE SaveRows(_, _, _, _, _, _)
SaveRows(b, order, ks, nbs, skipped, n) ==
    IF order = <<>> THEN <<>>
    ELSE LET key == Head(order)
         IN  (IF key \in skipped THEN <<>>
              ELSE <<Row(key, b[key], ks[key], nbs[key], n)>>)
             \o SaveRows(b, Tail(order), ks, nbs, skipped, n)

\* The bag that stores every row, decrypted or not.
AfterRowAlways(acc, set, ok) == set

\* The bag after a row: a row that did not decrypt is skipped.
AfterRow(acc, set, ok) == IF ok THEN set ELSE acc

\* LoadFromDatabase: rows in the order the query returns them; a row that does
\* not decrypt is skipped, a later row of a key replaces an earlier one.
RECURSIVE LoadRows(_, _, _, _, _)
LoadRows(rows, order, acc, n, down) ==
    IF order = <<>> THEN acc
    ELSE LET row == rows[Head(order)]
             d == Decrypt(row.ciphertext, n, Head(order) \notin down)
             set == [k \in DOMAIN acc \cup {row.key} |->
                        IF k = row.key THEN d.bytes ELSE acc[k]]
         IN  LoadRows(rows, Tail(order), AfterRow(acc, set, d.ok), n, down)

\* The rows for which LoadFromDatabase logs "Skipping row".
SkippedRows(rows, n, down) ==
    {i \in DOMAIN rows : ~Decrypt(rows[i].ciphertext, n, i \notin down).ok}

AllDecrypt(rows, n, down) ==
    \A i \in DOMAIN rows : Decrypt(rows[i].ciphertext, n, i \notin down).ok

EmptyBag == [k \in {} |-> NoBytes]

InitSecrets ==
    /\ pc = "secrets"
    /\ wrappedLen \in WrappedLens
    /\ table \in PriorTables(wrappedLen)
    /\ saveBag = EmptyBag
    /\ truncating = FALSE
    /\ saveOK = FALSE
    /\ loadedBag = <<>>
    /\ skippedRows = {}
    /\ lastCall = NoCall
    /\ cryptoOK = TRUE
    /\ plaintext = NoBytes
    /\ envelope = <<>>
    /\ recovered = <<>>
    /\ bag = EmptyBag
    /\ desired = [Units |-> <<>>, Files |-> NoFiles]
    /\ actual = [Units |-> <<>>, Files |-> NoFiles]
    /\ delta = EmptyDelta
    /\ HostIdle
    /\ ApplyIdle
    /\ BuilderIdle
    /\ SyncIdle
    /\ ExtraIdle

\* The statements of SaveToDatabase that can fail, in the order it runs
\* them, and "none" for a save in which none does.
TxFailures == {"begin", "truncate", "prepare", "insert", "flush", "commit", "none"}

\* What the transaction holds when it ends: the table, emptied once the
\* TRUNCATE ran, with the copied rows once the copy was flushed.
TxView(t, truncate, rows, failAt) ==
    (IF truncate /\ failAt \notin {"begin", "truncate"} THEN <<>> ELSE t)
    \o (IF failAt \in {"commit", "none"} THEN rows ELSE <<>>)

\* A transaction that is left open.
RollbackNever(before, view) == view

\* The deferred tx.Rollback(): the table is what it was before Begin.
Rollback(before, view) == before

\* Bag.SaveToDatabase of bag b, on behalf of call.
Save(b, truncate, call) ==
    \E order \in Orders(DOMAIN b) :
    \E ks \in [DOMAIN b -> DataKeys] :
    \E nbs \in [DOMAIN b -> NonceBytes] :
    \E skipped \in {K \in SUBSET DOMAIN b : Cardinality(K) <= 1} :
    \E failAt \in TxFailures :
        LET view == TxView(table, truncate,
                           SaveRows(b, order, ks, nbs, skipped, wrappedLen), failAt)
        IN  /\ saveBag' = b
            /\ truncating' = truncate
            /\ cryptoOK' = (cryptoOK /\ skipped = {})
            /\ saveOK' = (failAt = "none")
            /\ table' = IF failAt = "none" THEN view ELSE Rollback(table, view)
            /\ lastCall' = [call EXCEPT !.before = table]

SaveToDatabaseStep ==
    /\ pc = "secrets"
    /\ \E b \in Bags : \E truncate \in BOOLEAN :
          Save(b, truncate, [NoCall EXCEPT !.op = "SaveToDatabase"])
    /\ pc' = "saved"
    /\ UNCHANGED <<wrappedLen, loadedBag, skippedRows, plaintext, envelope, recovered>>
    /\ UNCHANGED <<coreVars, extraVars, builderVars, syncVars>>

\* SessionLease.SetSecrets: loads the bag, sets the given secrets, and saves
\* without truncating.
SetSecretsStep ==
    /\ pc = "secrets"
    /\ \E secrets \in Bags \ {EmptyBag} :
       \E order \in Orders(DOMAIN table) :
          LET loaded == LoadRows(table, order, EmptyBag, wrappedLen, {})
              merged == [k \in DOMAIN loaded \cup DOMAIN secrets |->
                            IF k \in DOMAIN secrets THEN secrets[k] ELSE loaded[k]]
          IN  Save(merged, FALSE,
                   [NoCall EXCEPT !.op = "SetSecrets", !.arg = secrets, !.held = DOMAIN loaded])
    /\ pc' = "saved"
    /\ UNCHANGED <<wrappedLen, loadedBag, skippedRows, plaintext, envelope, recovered>>
    /\ UNCHANGED <<coreVars, extraVars, builderVars, syncVars>>

\* SessionLease.DeleteSecrets: loads the bag, deletes the given keys, and
\* saves with truncation.
DeleteSecretsStep ==
    /\ pc = "secrets"
    /\ \E keys \in SUBSET SecretKeys \ {{}} :
       \E order \in Orders(DOMAIN table) :
          LET loaded == LoadRows(table, order, EmptyBag, wrappedLen, {})
              kept == [k \in DOMAIN loaded \ keys |-> loaded[k]]
          IN  Save(kept, TRUE,
                   [NoCall EXCEPT !.op = "DeleteSecrets", !.arg = keys, !.held = DOMAIN loaded])
    /\ pc' = "saved"
    /\ UNCHANGED <<wrappedLen, loadedBag, skippedRows, plaintext, envelope, recovered>>
    /\ UNCHANGED <<coreVars, extraVars, builderVars, syncVars>>

\* LoadFromDatabase: returns an error only when the query or a scan fails.
LoadFromDatabaseStep ==
    /\ pc = "saved"
    /\ \E queryOK \in BOOLEAN :
       \E order \in Orders(DOMAIN table) :
       \E down \in {D \in SUBSET DOMAIN table : Cardinality(D) <= 1} :
          IF ~queryOK
          THEN /\ pc' = "load_failed"
               /\ UNCHANGED <<loadedBag, skippedRows, cryptoOK>>
          ELSE /\ loadedBag' = <<LoadRows(table, order, EmptyBag, wrappedLen, down)>>
               /\ skippedRows' = SkippedRows(table, wrappedLen, down)
               /\ cryptoOK' = (cryptoOK /\ AllDecrypt(table, wrappedLen, down))
               /\ pc' = "loaded"
    /\ UNCHANGED <<table, wrappedLen, saveBag, truncating, saveOK, plaintext, envelope,
                   recovered, lastCall>>
    /\ UNCHANGED <<coreVars, extraVars, builderVars, syncVars>>

Plaintexts == SeqsUpTo(ByteValues, MaxPlain)

EncryptStep ==
    /\ pc = "secrets"
    /\ \E p \in Plaintexts : \E k \in DataKeys : \E nb \in NonceBytes : \E up \in BOOLEAN :
          /\ plaintext' = p
          /\ envelope' = <<Encrypt(p, k, Repeat(nb, NonceSize), wrappedLen, up)>>
    /\ pc' = "encrypted"
    /\ UNCHANGED <<table, wrappedLen, saveBag, truncating, saveOK, loadedBag, skippedRows, cryptoOK,
                   recovered, lastCall>>
    /\ UNCHANGED <<coreVars, extraVars, builderVars, syncVars>>

DecryptStep ==
    /\ pc = "encrypted"
    /\ envelope[1].ok
    /\ \E up \in BOOLEAN :
          /\ recovered' = <<Decrypt(envelope[1].bytes, wrappedLen, up)>>
          /\ cryptoOK' = up
    /\ pc' = "decrypted"
    /\ UNCHANGED <<table, wrappedLen, saveBag, truncating, saveOK, loadedBag, skippedRows, plaintext,
                   envelope, lastCall>>
    /\ UNCHANGED <<coreVars, extraVars, builderVars, syncVars>>

NextSecrets ==
    \/ SaveToDatabaseStep
    \/ SetSecretsStep
    \/ DeleteSecretsStep
    \/ LoadFromDatabaseStep
    \/ EncryptStep
    \/ DecryptStep

SpecSecrets == InitSecrets /\ [][NextSecrets]_vars

(***************************************************************************)
(* The DesiredSystemdUnitBuilder.                                          *)
(***************************************************************************)
MaxCalls == 4

\* filepath.Clean of an absolute path, as components.
RECURSIVE CleanFrom(_, _)
CleanFrom(done, rest) ==
    IF rest = <<>> THEN done
    ELSE IF Head(rest) = "." THEN CleanFrom(done, Tail(rest))
    ELSE IF Head(rest) = ".."
         THEN CleanFrom(IF done = <<>> THEN done ELSE SubSeq(done, 1, Len(done) - 1), Tail(rest))
    ELSE CleanFrom(Append(done, Head(rest)), Tail(rest))

Clean(path) == CleanFrom(<<>>, path)

\* filepath.Split: the directory and the file name.
SplitDir(path) == IF path = <<>> THEN <<>> ELSE SubSeq(path, 1, Len(path) - 1)
SplitFile(path) == IF path = <<>> THEN "" ELSE path[Len(path)]

\* strings.HasPrefix(fileName, "az-") over the file names used here.
HasAzPrefix(fileName) ==
    fileName \in {"az-web.service", "az-tick.timer", "az-job.service",
                 "az-coordinator.service", "az-old.service"}

\* The two allow-listed image prefixes, over the image names used here.
HasImagePrefix(imageName) ==
    imageName \in {"quay.io/smashwilson/az-web", "smashwilson/az-job"}

\* strings.HasPrefix(hostPath, "/etc/ssl/az/").
UnderSSLDir(hostPath) ==
    Len(hostPath) > 3 /\ SubSeq(hostPath, 1, 3) = <<"etc", "ssl", "az">>

NilFields == {"Secrets", "Env", "Ports", "Volumes"}

\* BuildDesiredUnit: the zero DesiredSystemdUnit.
ZeroUnit ==
    [Path |-> <<>>, Type |-> TypeSimple, Container |-> <<>>, Secrets |-> <<>>,
     Env |-> EmptyMap, Ports |-> EmptyMap, Volumes |-> EmptyMap, Schedule |-> "",
     Nil |-> NilFields]

normalizeNils(u) == [u EXCEPT !.Nil = {}]

\* validate without the schedule rules.
validateContainerOnly(u) ==
    IF u.Type = TypeSimple /\ u.Container = <<>> THEN "Invalid missing container"
    ELSE IF u.Type = TypeSimple /\ u.Container[1].Name = "" THEN "invalid empty container name"
    ELSE IF u.Type \in {TypeSimple, TypeOneShot}
         THEN IF u.Container = <<>> THEN "Invalid missing container"
              ELSE IF ~HasImagePrefix(u.Container[1].ImageName) THEN "invalid container image name"
              ELSE IF u.Container[1].ImageTag = "" THEN "invalid empty container image tag"
              ELSE ""
    ELSE IF u.Container # <<>> THEN "attempt to specify container information"
    ELSE ""

\* DesiredSystemdUnitBuilder.validate: the error, or "" for nil.
validate(u) ==
    IF u.Type = TypeSimple /\ u.Container = <<>> THEN "Invalid missing container"
    ELSE IF u.Type = TypeSimple /\ u.Container[1].Name = "" THEN "invalid empty container name"
    ELSE IF u.Type \in {TypeSimple, TypeOneShot} /\ u.Container = <<>>
         THEN "Invalid missing container"
    ELSE IF u.Type \in {TypeSimple, TypeOneShot} /\ ~HasImagePrefix(u.Container[1].ImageName)
         THEN "invalid container image name"
    ELSE IF u.Type \in {TypeSimple, TypeOneShot} /\ u.Container[1].ImageTag = ""
         THEN "invalid empty container image tag"
    ELSE IF u.Type \notin {TypeSimple, TypeOneShot} /\ u.Container # <<>>
         THEN "attempt to specify container information"
    ELSE IF u.Type = TypeTimer /\ u.Schedule = "" THEN "timer units must have a schedule"
    ELSE IF u.Type # TypeTimer /\ u.Schedule # "" THEN "non-timer units may not have a schedule"
    ELSE ""

PathInputs ==
    {WebPath,
     UnitDir \o <<"sub", "..", "az-tick.timer">>,
     UnitDir \o <<"web.service">>,
     UnitDir \o <<"sub", "az-web.service">>,
     <<>>}
TypeInputs == {TypeSimple, TypeTimer, TypeOneShot, TypeSelf, 9}
ContainerInputs ==
    {<<"", "", "">>, <<ImageRef, "v1", "web">>, <<ImageRef, "v1", "">>,
     <<"evil/image", "v1", "web">>, <<ImageRef, "", "web">>}
SecretsInputs == {[isNil |-> TRUE, keys |-> <<>>], [isNil |-> FALSE, keys |-> <<"DB_PASS">>],
                  [isNil |-> FALSE, keys |-> <<"MISSING">>]}
PasswdMount == [p \in {<<"etc", "ssl", "az", "..", "..", "passwd">>, FilenameDHParams} |-> "/in"]
VolumesInputs == {[isNil |-> TRUE, m |-> EmptyMap], [isNil |-> FALSE, m |-> CertMount],
                  [isNil |-> FALSE, m |-> PasswdMount]}
EnvInputs == {[isNil |-> TRUE, m |-> EmptyMap], [isNil |-> FALSE, m |-> PortEnv]}
ScheduleInputs == {"", "hourly"}

InitBuilder ==
    /\ pc = "building"
    /\ unit = ZeroUnit
    /\ tried = 0
    /\ calls = 0
    /\ built = <<>>
    /\ bag = FullBag
    /\ desired = [Units |-> <<>>, Files |-> NoFiles]
    /\ actual = [Units |-> <<>>, Files |-> NoFiles]
    /\ delta = EmptyDelta
    /\ HostIdle
    /\ ApplyIdle
    /\ SecretsIdle
    /\ SyncIdle
    /\ ExtraIdle

\* One setter call: the unit it leaves and whether it returned an error.
Setter(u, failed) ==
    /\ pc = "building"
    /\ calls < MaxCalls
    /\ calls' = calls + 1
    /\ unit' = u
    /\ tried' = tried + (IF failed THEN 1 ELSE 0)
    /\ UNCHANGED <<pc, built, coreVars, extraVars, secretVars, syncVars>>

PathCall ==
    \E path \in PathInputs :
        LET cleaned == Clean(path)
            ok == SplitDir(cleaned) = UnitDir /\ HasAzPrefix(SplitFile(cleaned))
        IN  Setter(IF ok THEN [unit EXCEPT !.Path = cleaned] ELSE unit, ~ok)

TypeCall ==
    \E tp \in TypeInputs :
        LET ok == tp \in DOMAIN namesByType
        IN  Setter(IF ok THEN [unit EXCEPT !.Type = tp] ELSE unit, ~ok)

ContainerCall ==
    \E c \in ContainerInputs :
        Setter([unit EXCEPT !.Container =
                    IF c[1] = "" /\ c[2] = "" THEN <<>>
                    ELSE <<DesiredDockerContainer(c[3], c[1], c[2], "")>>],
               FALSE)

\* Secrets: ValidateSecretKeys fails when the bag cannot be loaded or lacks a key.
SecretsCall ==
    \E in \in SecretsInputs : \E dbOK \in BOOLEAN :
        LET ok == dbOK /\ \A i \in DOMAIN in.keys : in.keys[i] \in DOMAIN bag
        IN  Setter(IF ok THEN [unit EXCEPT !.Secrets = in.keys,
                                           !.Nil = IF in.isNil THEN @ \cup {"Secrets"}
                                                   ELSE @ \ {"Secrets"}]
                   ELSE unit, ~ok)

\* Volumes keeps the mounts under /etc/ssl/az/ and reports the others.
VolumesCall ==
    \E in \in VolumesInputs :
        LET good == {h \in DOMAIN in.m : UnderSSLDir(Clean(h))}
            kept == [n \in {Clean(h) : h \in good} |->
                        in.m[CHOOSE h \in good : Clean(h) = n]]
        IN  Setter([unit EXCEPT !.Volumes = kept, !.Nil = @ \ {"Volumes"}],
                   good # DOMAIN in.m)

EnvCall ==
    \E in \in EnvInputs :
        Setter([unit EXCEPT !.Env = in.m,
                            !.Nil = IF in.isNil THEN @ \cup {"Env"} ELSE @ \ {"Env"}], FALSE)

PortsCall ==
    \E isNil \in BOOLEAN :
        Setter([unit EXCEPT !.Ports = EmptyMap,
                            !.Nil = IF isNil THEN @ \cup {"Ports"} ELSE @ \ {"Ports"}], FALSE)

ScheduleCall ==
    \E schedule \in ScheduleInputs : Setter([unit EXCEPT !.Schedule = schedule], FALSE)

\* Build: validate, which also normalizes the nil collections of the unit.
BuildCall ==
    /\ pc = "building"
    /\ LET err == validate(unit)
       IN  IF err # ""
           THEN /\ built' = <<[ok |-> FALSE, err |-> err]>>
                /\ tried' = tried + 1
                /\ unit' = unit
           ELSE /\ built' = <<[ok |-> TRUE, err |-> ""]>>
                /\ tried' = tried
                /\ unit' = normalizeNils(unit)
    /\ pc' = "built"
    /\ UNCHANGED <<calls, coreVars, extraVars, secretVars, syncVars>>

NextBuilder ==
    \/ PathCall
    \/ TypeCall
    \/ ContainerCall
    \/ SecretsCall
    \/ VolumesCall
    \/ EnvCall
    \/ PortsCall
    \/ ScheduleCall
    \/ BuildCall

SpecBuilder == InitBuilder /\ [][NextBuilder]_vars

(***************************************************************************)
(* POST /sync: the syncProgress singleton and performSync.                 *)
(***************************************************************************)
MaxRequests == 3

Handlers == 1..MaxRequests
StatusAccepted == 202

\* syncProgress.request, under the lock: refuses when a sync is in progress.
requestAlways(p) ==
    [ok |-> TRUE, p |-> [inProgress |-> TRUE, delta |-> <<>>, errs |-> <<>>]]
request(p) ==
    IF p.inProgress THEN [ok |-> FALSE, p |-> p]
    ELSE [ok |-> TRUE, p |-> [inProgress |-> TRUE, delta |-> <<>>, errs |-> <<>>]]

setErrors(p, es) == [p EXCEPT !.errs = es, !.inProgress = FALSE]

\* setDelta without the reset of inProgress.
setDeltaStillRunning(p, d) == [p EXCEPT !.delta = d]
setDelta(p, d) == [p EXCEPT !.delta = d, !.inProgress = FALSE]

InitSync ==
    /\ pc = "serving"
    /\ currentSync = [inProgress |-> FALSE, delta |-> <<>>, errs |-> <<>>]
    /\ hpc = [h \in Handlers |-> "arrived"]
    /\ starting = [h \in Handlers |-> FALSE]
    /\ response = [h \in Handlers |-> <<>>]
    /\ workers = <<>>
    /\ granted = 0
    /\ terminals = 0
    /\ alive = TRUE
    /\ bag = EmptyBag
    /\ desired = [Units |-> <<>>, Files |-> NoFiles]
    /\ actual = [Units |-> <<>>, Files |-> NoFiles]
    /\ delta = EmptyDelta
    /\ HostIdle
    /\ ApplyIdle
    /\ SecretsIdle
    /\ BuilderIdle
    /\ ExtraIdle

\* handleCreateSync calls request().
HandlerRequest(h) ==
    /\ alive
    /\ hpc[h] = "arrived"
    /\ LET r == request(currentSync)
       IN  /\ currentSync' = r.p
           /\ starting' = [starting EXCEPT ![h] = r.ok]
           /\ granted' = granted + (IF r.ok THEN 1 ELSE 0)
    /\ hpc' = [hpc EXCEPT ![h] = "requested"]
    /\ UNCHANGED <<pc, response, workers, terminals, alive, coreVars, extraVars, secretVars, builderVars>>

\* The caller that was refused answers 202 and starts nothing.
HandlerRefuse(h) ==
    /\ alive
    /\ hpc[h] = "requested"
    /\ ~starting[h]
    /\ response' = [response EXCEPT ![h] =
                       <<[status |-> StatusAccepted, body |-> "Sync already in progress"]>>]
    /\ hpc' = [hpc EXCEPT ![h] = "responded"]
    /\ UNCHANGED <<pc, currentSync, starting, workers, granted, terminals, alive,
                   coreVars, extraVars, secretVars, builderVars>>

\* The caller that got true runs `go s.performSync()`.
HandlerSpawn(h) ==
    /\ alive
    /\ hpc[h] = "requested"
    /\ starting[h]
    /\ workers' = Append(workers, [by |-> h, at |-> "take"])
    /\ hpc' = [hpc EXCEPT ![h] = "spawned"]
    /\ UNCHANGED <<pc, currentSync, starting, response, granted, terminals, alive,
                   coreVars, extraVars, secretVars, builderVars>>

HandlerAccept(h) ==
    /\ alive
    /\ hpc[h] = "spawned"
    /\ response' = [response EXCEPT ![h] =
                       <<[status |-> StatusAccepted, body |-> "Sync started."]>>]
    /\ hpc' = [hpc EXCEPT ![h] = "responded"]
    /\ UNCHANGED <<pc, currentSync, starting, workers, granted, terminals, alive,
                   coreVars, extraVars, secretVars, builderVars>>

\* performSync takes a session; on failure it reports the error and returns.
WorkerTake(w) ==
    /\ alive
    /\ workers[w].at = "take"
    /\ \E ok \in BOOLEAN :
          IF ok
          THEN /\ workers' = [workers EXCEPT ![w].at = "synchronize"]
               /\ UNCHANGED <<currentSync, terminals>>
          ELSE /\ workers' = [workers EXCEPT ![w].at = "returned"]
               /\ currentSync' = setErrors(currentSync, <<Err("Take", "session")>>)
               /\ terminals' = terminals + 1
    /\ UNCHANGED <<pc, hpc, starting, response, granted, alive, coreVars, extraVars, secretVars,
                   builderVars>>

\* session.Synchronize: returns a Delta, returns errors, or ends the process
\* in the self-restart gate of Apply.
SynchronizeOutcomes == {"delta", "errors", "exit"}

WorkerSynchronize(w) ==
    /\ alive
    /\ workers[w].at = "synchronize"
    /\ \E outcome \in SynchronizeOutcomes :
          /\ workers' = [workers EXCEPT ![w].at = outcome]
          /\ alive' = (outcome # "exit")
    /\ UNCHANGED <<pc, currentSync, hpc, starting, response, granted, terminals,
                   coreVars, extraVars, secretVars, builderVars>>

\* performSync reports what Synchronize returned: setErrors or setDelta.
WorkerReport(w) ==
    /\ alive
    /\ workers[w].at \in {"delta", "errors"}
    /\ currentSync' = IF workers[w].at = "errors"
                      THEN setErrors(currentSync, <<Err("Synchronize", "failed")>>)
                      ELSE setDelta(currentSync, <<EmptyDelta>>)
    /\ terminals' = terminals + 1
    /\ workers' = [workers EXCEPT ![w].at = "returned"]
    /\ UNCHANGED <<pc, hpc, starting, response, granted, alive, coreVars, extraVars, secretVars,
                   builderVars>>

HandlerStep ==
    \E h \in Handlers :
        HandlerRequest(h) \/ HandlerRefuse(h) \/ HandlerSpawn(h) \/ HandlerAccept(h)

WorkerStep ==
    \E w \in DOMAIN workers : WorkerTake(w) \/ WorkerSynchronize(w) \/ WorkerReport(w)

NextSync ==
    \/ \E h \in Handlers : HandlerRequest(h)
    \/ \E h \in Handlers : HandlerRefuse(h)
    \/ \E h \in Handlers : HandlerSpawn(h)
    \/ \E h \in Handlers : HandlerAccept(h)
    \/ \E w \in DOMAIN workers : WorkerTake(w)
    \/ \E w \in DOMAIN workers : WorkerSynchronize(w)
    \/ \E w \in DOMAIN workers : WorkerReport(w)

SpecSync == InitSync /\ [][NextSync]_vars

\* Every handler and every goroutine that can take a step eventually does.
FairSpecSync == SpecSync /\ WF_vars(HandlerStep) /\ WF_vars(WorkerStep)

(***************************************************************************)
(* Delta.Apply, operation by operation, with the jobs of the init system.  *)
(***************************************************************************)
MaxBatch == 2

\* The channels of the three phases that fan out: stops, starts, restarts.
Channels == {"stops", "starts", "restarts"}

\* The unit names Apply dispatches in the phase of a channel; the channel is
\* made with this many slots.
Batch(ch) ==
    CASE ch = "stops" -> UnitNames(delta.UnitsToRemove)
      [] ch = "starts" -> UnitNames(delta.UnitsToAdd)
      [] OTHER -> restartUnits

DispatchOp == [stops |-> "StopUnit", starts |-> "StartUnit", restarts |-> "RestartUnit"]
BatchOp == [stops |-> "DisableUnitFiles", starts |-> "EnableUnitFiles"]

\* Where Apply is while it dispatches and awaits a batch, and where it goes
\* when the batch was awaited and when the phase is over.
DispatchAt == [stops |-> "stop", starts |-> "start", restarts |-> "restart"]
AwaitAt == [stops |-> "stop_await", starts |-> "start_await", restarts |-> "restart_await"]
AfterAwait == [stops |-> "disable", starts |-> "enable", restarts |-> "remove"]
AfterPhase == [stops |-> "reload", starts |-> "restart", restarts |-> "remove"]

\* errs = append(errs, err) when the operation failed.
CollectNothing(es, ok, e) == es
Collect(es, ok, e) == IF ok THEN es ELSE Append(es, e)

\* The empty completion Apply posts when a dispatch failed.
NoSentinel(c) == c
Sentinel(c) == Append(c, "")

\* A failed Reload makes Apply return; otherwise it goes on to the starts.
AfterReloadAlways(ok) == "start"
AfterReload(ok) == IF ok THEN "start" ELSE "returned"

\* The number of completions Apply waits for on a channel.
AwaitNone(ch) == 0
AwaitCount(ch) == Len(Batch(ch))

Issue(op, item, ok) == Append(issued, [op |-> op, item |-> item, ok |-> ok])

\* The outcomes of one operation: it may fail while the failure budget lasts.
Outcomes == {TRUE} \cup (IF faults < MaxFaults THEN {FALSE} ELSE {})
Cost(ok) == IF ok THEN 0 ELSE 1

\* The errors of rendering a unit into its file.
RenderErrs(op, u) == [i \in 1..Cardinality(WriteUnit(u, bag).errs) |-> Err(op, u.Path)]

Prefix(s, n) == SubSeq(s, 1, IF n < Len(s) THEN n ELSE Len(s))

AddList == <<TickUnit("daily"), JobUnit("sha256:a"), ApiUnit("sha256:c")>>
ChangeList == <<WebUnit("sha256:b")>>
RestartList == <<SelfUnit>>
\* Between removes an actual unit only when no desired unit has its name.
RemoveList ==
    <<ActualSystemdUnit(OldPath, "", ForeignText),
      ActualSystemdUnit(VendorDir \o <<"az-former.service">>, "sha256:a", ForeignText),
      ActualSystemdUnit(UnitDir \o <<"az-gone.timer">>, "", ForeignText)>>

\* The Deltas given to Apply: up to MaxBatch units to add and to remove, one
\* unit to restart with or without a unit to change, with or without TLS
\* files to write.
ApplyDeltas ==
    {[UnitsToAdd |-> Prefix(AddList, a),
      UnitsToChange |-> Prefix(ChangeList, c),
      UnitsToRestart |-> RestartList,
      UnitsToRemove |-> Prefix(RemoveList, m),
      FilesToWrite |-> SetToSeq(F),
      UpdatedContainers |-> <<>>,
      fileContent |-> [p \in F |-> Bytes(NewPEM)]] :
        a \in 0..MaxBatch, c \in 0..1, m \in 0..MaxBatch,
        F \in {{}, {FilenameTLSCertificate, FilenameDHParams}}}

InitApply ==
    /\ pc = "files"
    /\ delta \in ApplyDeltas
    /\ bag = NoPassBag
    /\ desired = [Units |-> <<>>, Files |-> NoFiles]
    /\ actual = [Units |-> <<>>, Files |-> NoFiles]
    /\ HostIdle
    /\ ApplyIdle
    /\ idx = 1
    /\ chans = [ch \in Channels |-> <<>>]
    /\ jobs = {}
    /\ received = [ch \in Channels |-> 0]
    /\ issued = <<>>
    /\ returned = <<>>
    /\ SecretsIdle
    /\ BuilderIdle
    /\ SyncIdle
    /\ PoolIdle
    /\ LeaseIdle

\* What no step of Apply changes.
applyFrame == <<bag, desired, actual, delta, hostVars, result, redelta, ops,
                secretVars, builderVars, syncVars, poolVars, leaseVars>>

\* Phase 1: one file of fileContent, in the order the map yields them.
WriteFileStep ==
    /\ pc = "files"
    /\ LET done == {issued[i].item : i \in DOMAIN issued}
           left == DOMAIN delta.fileContent \ done
       IN  IF left = {}
           THEN /\ pc' = "create"
                /\ idx' = 1
                /\ UNCHANGED <<errs, faults, issued>>
           ELSE /\ \E p \in left, ok \in Outcomes :
                      /\ errs' = Collect(errs, ok, Err("WriteFile", p))
                      /\ faults' = faults + Cost(ok)
                      /\ issued' = Issue("WriteFile", p, ok)
                /\ UNCHANGED <<pc, idx>>
    /\ UNCHANGED <<leaseSecrets, restartUnits, needsReload, applied, restartNeeded,
                   chans, jobs, received, returned>>
    /\ UNCHANGED applyFrame

\* needsReload set only once a unit file was written.
NeedsReloadIfWritten(before, ok) == before \/ ok

\* needsReload = true at the top of the loop body, before the unit file is
\* opened.
NeedsReload(before, ok) == TRUE

\* Phase 2: the unit file of one unit of UnitsToAdd.
CreateUnitStep ==
    /\ pc = "create"
    /\ IF idx > Len(delta.UnitsToAdd)
       THEN /\ pc' = "change"
            /\ idx' = 1
            /\ UNCHANGED <<errs, faults, issued, needsReload>>
       ELSE LET u == delta.UnitsToAdd[idx]
            IN  /\ \E ok \in Outcomes :
                      /\ needsReload' = NeedsReload(needsReload, ok)
                      /\ errs' = Collect(errs, ok, Err("CreateUnit", u.Path))
                                    \o (IF ok THEN RenderErrs("CreateUnit", u) ELSE <<>>)
                      /\ faults' = faults + Cost(ok)
                      /\ issued' = Issue("CreateUnit", u.Path, ok /\ WriteUnit(u, bag).errs = {})
                /\ idx' = idx + 1
                /\ UNCHANGED pc
    /\ UNCHANGED <<leaseSecrets, restartUnits, applied, restartNeeded,
                   chans, jobs, received, returned>>
    /\ UNCHANGED applyFrame

\* The name queued for a restart only once the unit file was rewritten.
QueueRestartIfWritten(queue, name, ok) == IF ok THEN Append(queue, name) ELSE queue

\* restartUnits = append(restartUnits, unit.UnitName()), before the unit
\* file is opened.
QueueRestart(queue, name, ok) == Append(queue, name)

\* Phases 3 and 4: the unit file of one unit of UnitsToChange, whose name is
\* queued for a restart; then the names of UnitsToRestart are queued.
ChangeUnitStep ==
    /\ pc = "change"
    /\ IF idx > Len(delta.UnitsToChange)
       THEN /\ restartUnits' = restartUnits \o UnitNames(delta.UnitsToRestart)
            /\ pc' = "stop"
            /\ idx' = 1
            /\ UNCHANGED <<errs, faults, issued, needsReload>>
       ELSE LET u == delta.UnitsToChange[idx]
            IN  /\ \E ok \in Outcomes :
                      /\ needsReload' = NeedsReload(needsReload, ok)
                      /\ restartUnits' = QueueRestart(restartUnits, UnitName(u), ok)
                      /\ errs' = Collect(errs, ok, Err("ChangeUnit", u.Path))
                                    \o (IF ok THEN RenderErrs("ChangeUnit", u) ELSE <<>>)
                      /\ faults' = faults + Cost(ok)
                      /\ issued' = Issue("ChangeUnit", u.Path, ok /\ WriteUnit(u, bag).errs = {})
                /\ idx' = idx + 1
                /\ UNCHANGED pc
    /\ UNCHANGED <<leaseSecrets, applied, restartNeeded, chans, jobs, received, returned>>
    /\ UNCHANGED applyFrame

\* StopUnit, StartUnit or RestartUnit of one unit of the batch: the init
\* system accepts the job, or the call fails and Apply posts the sentinel.
\* A send on a full channel blocks.
DispatchStep(ch) ==
    /\ pc = DispatchAt[ch]
    /\ IF Batch(ch) = <<>>
       THEN /\ pc' = AfterPhase[ch]
            /\ idx' = 1
            /\ UNCHANGED <<errs, faults, issued, chans, jobs>>
       ELSE IF idx > Len(Batch(ch))
       THEN /\ pc' = AwaitAt[ch]
            /\ UNCHANGED <<idx, errs, faults, issued, chans, jobs>>
       ELSE /\ \E ok \in Outcomes :
                  /\ ok \/ Len(Sentinel(chans[ch])) <= Len(Batch(ch))
                  /\ errs' = Collect(errs, ok, Err(DispatchOp[ch], Batch(ch)[idx]))
                  /\ chans' = IF ok THEN chans ELSE [chans EXCEPT ![ch] = Sentinel(@)]
                  /\ jobs' = IF ok THEN jobs \cup {<<ch, idx>>} ELSE jobs
                  /\ faults' = faults + Cost(ok)
                  /\ issued' = Issue(DispatchOp[ch], Batch(ch)[idx], ok)
            /\ idx' = idx + 1
            /\ UNCHANGED pc
    /\ UNCHANGED <<leaseSecrets, restartUnits, needsReload, applied, restartNeeded,
                   received, returned>>
    /\ UNCHANGED applyFrame

\* The init system completes a job it accepted and posts the completion on
\* the channel the job was dispatched with.
CompletionStep ==
    /\ pc # "exited"
    /\ \E j \in jobs :
          /\ Len(chans[j[1]]) < Len(Batch(j[1]))
          /\ chans' = [chans EXCEPT ![j[1]] = Append(@, "done")]
          /\ jobs' = jobs \ {j}
    /\ UNCHANGED <<pc, leaseSecrets, errs, restartUnits, needsReload, applied, restartNeeded,
                   faults, idx, received, issued, returned>>
    /\ UNCHANGED applyFrame

\* The loop that receives one completion per unit of the batch.
AwaitStep(ch) ==
    /\ pc = AwaitAt[ch]
    /\ IF received[ch] >= AwaitCount(ch)
       THEN /\ pc' = AfterAwait[ch]
            /\ idx' = 1
            /\ UNCHANGED <<chans, received, issued>>
       ELSE /\ chans[ch] # <<>>
            /\ chans' = [chans EXCEPT ![ch] = Tail(@)]
            /\ received' = [received EXCEPT ![ch] = @ + 1]
            /\ issued' = Issue("await", ch, TRUE)
            /\ UNCHANGED <<pc, idx>>
    /\ UNCHANGED <<leaseSecrets, errs, restartUnits, needsReload, applied, restartNeeded,
                   faults, jobs, returned>>
    /\ UNCHANGED applyFrame

\* DisableUnitFiles after the stops, EnableUnitFiles after the starts.
BatchCallStep(ch) ==
    /\ ch \in DOMAIN BatchOp
    /\ pc = AfterAwait[ch]
    /\ \E ok \in Outcomes :
          /\ errs' = Collect(errs, ok, Err(BatchOp[ch], ch))
          /\ faults' = faults + Cost(ok)
          /\ issued' = Issue(BatchOp[ch], ch, ok)
    /\ pc' = AfterPhase[ch]
    /\ idx' = 1
    /\ UNCHANGED <<leaseSecrets, restartUnits, needsReload, applied, restartNeeded,
                   chans, jobs, received, returned>>
    /\ UNCHANGED applyFrame

\* Phase 6: Reload when a unit file was written; Apply returns when it fails.
ReloadStep ==
    /\ pc = "reload"
    /\ IF ~needsReload
       THEN /\ pc' = "start"
            /\ UNCHANGED <<errs, faults, issued, returned>>
       ELSE \E ok \in Outcomes :
               /\ errs' = Collect(errs, ok, Err("Reload", ""))
               /\ faults' = faults + Cost(ok)
               /\ issued' = Issue("Reload", "", ok)
               /\ pc' = AfterReload(ok)
               /\ returned' = IF AfterReload(ok) = "returned" THEN <<errs'>> ELSE returned
    /\ idx' = 1
    /\ UNCHANGED <<leaseSecrets, restartUnits, needsReload, applied, restartNeeded,
                   chans, jobs, received>>
    /\ UNCHANGED applyFrame

\* Phase 9: the unit file of one unit of UnitsToRemove is deleted.
RemoveFileStep ==
    /\ pc = "remove"
    /\ IF idx > Len(delta.UnitsToRemove)
       THEN /\ pc' = "gate"
            /\ UNCHANGED <<idx, errs, faults, issued>>
       ELSE /\ \E ok \in Outcomes :
                  /\ errs' = Collect(errs, ok, Err("Remove", delta.UnitsToRemove[idx].Path))
                  /\ faults' = faults + Cost(ok)
                  /\ issued' = Issue("Remove", delta.UnitsToRemove[idx].Path, ok)
            /\ idx' = idx + 1
            /\ UNCHANGED pc
    /\ UNCHANGED <<leaseSecrets, restartUnits, needsReload, applied, restartNeeded,
                   chans, jobs, received, returned>>
    /\ UNCHANGED applyFrame

\* Phase 10: os.Exit(0) when CoordinatorRestartNeeded, else Apply returns errs.
GateStep ==
    /\ pc = "gate"
    /\ \E dbOK \in BOOLEAN :
          /\ restartNeeded' = CoordinatorRestartNeeded(delta, leaseSecrets, bag, dbOK)
          /\ leaseSecrets' = GetSecrets(leaseSecrets, bag, dbOK).cached
    /\ applied' = TRUE
    /\ issued' = Issue("Gate", "", TRUE)
    /\ pc' = IF restartNeeded' THEN "exited" ELSE "returned"
    /\ returned' = IF restartNeeded' THEN returned ELSE <<errs>>
    /\ UNCHANGED <<errs, restartUnits, needsReload, faults, idx, chans, jobs, received>>
    /\ UNCHANGED applyFrame

NextApply ==
    \/ WriteFileStep
    \/ CreateUnitStep
    \/ ChangeUnitStep
    \/ \E ch \in Channels : DispatchStep(ch)
    \/ CompletionStep
    \/ \E ch \in Channels : AwaitStep(ch)
    \/ \E ch \in Channels : BatchCallStep(ch)
    \/ ReloadStep
    \/ RemoveFileStep
    \/ GateStep

SpecApply == InitApply /\ [][NextApply]_vars

(***************************************************************************)
(* Properties of the Delta.                                                *)
(***************************************************************************)
NamesOf(units) == {UnitName(units[i]) : i \in DOMAIN units}

AddNames == NamesOf(delta.UnitsToAdd)
ChangeNames == NamesOf(delta.UnitsToChange)
RestartNames == NamesOf(delta.UnitsToRestart)
RemoveNames == NamesOf(delta.UnitsToRemove)
BucketNames == AddNames \cup ChangeNames \cup RestartNames \cup RemoveNames

DesiredNames == NamesOf(desired.Units)
ActualNames == NamesOf(actual.Units)

BucketsDisjoint ==
    /\ AddNames \cap ChangeNames = {}
    /\ AddNames \cap RestartNames = {}
    /\ AddNames \cap RemoveNames = {}
    /\ ChangeNames \cap RestartNames = {}
    /\ ChangeNames \cap RemoveNames = {}
    /\ RestartNames \cap RemoveNames = {}

ActualNamesUnique ==
    \A i, j \in DOMAIN actual.Units :
        UnitName(actual.Units[i]) = UnitName(actual.Units[j]) => i = j

\* C1 as stated: whatever the inputs, no logical unit name occurs in more than
\* one of UnitsToAdd, UnitsToChange, UnitsToRestart and UnitsToRemove.
C1_PartitionAnyInput == pc = "output" => BucketsDisjoint

\* C1 amended: when no two actual units share a logical name (desired units
\* may), no logical unit name occurs in more than one of the four buckets.
C1_PartitionUniqueActual == (pc = "output" /\ ActualNamesUnique) => BucketsDisjoint

C1_Witness ==
    /\ pc = "output"
    /\ ActualNamesUnique
    /\ Cardinality(DesiredNames) < Len(desired.Units)
    /\ delta.UnitsToChange # <<>>
    /\ delta.UnitsToRemove # <<>>

\* C2 as stated: every desired or actual unit name is in some bucket.
C2_CoversAllNames ==
    pc = "output" => (DesiredNames \cup ActualNames) \subseteq BucketNames

\* A name that Between has nothing to do for: each actual unit of that name
\* runs the desired image (or the desired unit names none), has the desired
\* text (or the text cannot be rendered), and mounts no file to be written.
InSync(n) ==
    /\ n \in DesiredNames \cap ActualNames
    /\ \A i \in DOMAIN actual.Units :
          UnitName(actual.Units[i]) = n =>
              LET d == DesiredByName(desired.Units)[n]
                  a == actual.Units[i]
                  w == WriteUnit(d, bag)
              IN  /\ d.Container = <<>> \/ d.Container[1].ImageID \in {"", a.ImageID}
                  /\ w.errs # {} \/ w.text = a.Content
                  /\ \A h \in DOMAIN d.Volumes : h \notin Elems(delta.FilesToWrite)

\* C2 amended: the bucket names are desired or actual names, and the only
\* desired or actual names in no bucket are those of units that are in sync.
C2_CoversAllButInSync ==
    pc = "output" =>
        /\ BucketNames \subseteq DesiredNames \cup ActualNames
        /\ \A n \in DesiredNames \cup ActualNames : n \notin BucketNames <=> InSync(n)

C2_Witness ==
    /\ pc = "output"
    /\ \E n \in DesiredNames : InSync(n)
    /\ delta.UnitsToAdd # <<>>

\* The desired unit Between keeps for each name.
KeptUnits == {DesiredByName(desired.Units)[n] : n \in DesiredNames}

MountsFileToWrite(u) == \E h \in DOMAIN u.Volumes : h \in Elems(delta.FilesToWrite)

\* C4 as stated: every desired unit that mounts a file to be written is in
\* UnitsToRestart or UnitsToChange.
C4_MountRestartsEveryUnit ==
    pc = "output" =>
        \A u \in Elems(desired.Units) :
            MountsFileToWrite(u) =>
                u \in Elems(delta.UnitsToRestart) \cup Elems(delta.UnitsToChange)

\* C4 amended: a desired unit kept by Between (the last of its name) that
\* mounts a file to be written is in UnitsToRestart or UnitsToChange when an
\* actual unit has its name, and in UnitsToAdd when none has.
C4_MountRestartsOrAdds ==
    pc = "output" =>
        \A u \in KeptUnits :
            MountsFileToWrite(u) =>
                IF UnitName(u) \in ActualNames
                THEN u \in Elems(delta.UnitsToRestart) \cup Elems(delta.UnitsToChange)
                ELSE u \in Elems(delta.UnitsToAdd)

C4_Witness ==
    /\ pc = "output"
    /\ \E u \in KeptUnits :
          /\ MountsFileToWrite(u)
          /\ u \in Elems(delta.UnitsToRestart)
          /\ u \notin Elems(delta.UnitsToChange)

(***************************************************************************)
(* Properties of a run of Synchronize.                                     *)
(***************************************************************************)
DeltaIsEmpty(d) ==
    /\ d.UnitsToAdd = <<>>
    /\ d.UnitsToChange = <<>>
    /\ d.UnitsToRestart = <<>>
    /\ d.UnitsToRemove = <<>>
    /\ d.FilesToWrite = <<>>

\* Apply ran to its end and none of its operations failed.
AppliedCleanly == pc = "reprobed" /\ applied /\ errs = <<>>

StaleWithoutContainer(d) ==
    \E i \in DOMAIN d.UnitsToRestart :
        /\ d.UnitsToRestart[i].Container = <<>>
        /\ \E j \in DOMAIN actual.Units :
              /\ UnitName(actual.Units[j]) = UnitName(d.UnitsToRestart[i])
              /\ ContentDiffers(d.UnitsToRestart[i], actual.Units[j], bag)

\* The second Delta is empty whenever the first one had no container-less unit
\* with a stale file, and the stale units are all that the second one holds.
C3_ReapplyIsEmptyWithContainers ==
    AppliedCleanly =>
        IF StaleWithoutContainer(delta)
        THEN /\ redelta[1].UnitsToRestart # <<>>
             /\ redelta[1].UnitsToAdd = <<>>
             /\ redelta[1].UnitsToChange = <<>>
             /\ redelta[1].UnitsToRemove = <<>>
             /\ redelta[1].FilesToWrite = <<>>
        ELSE DeltaIsEmpty(redelta[1])

C3_StaleTimer ==
    /\ AppliedCleanly
    /\ StaleWithoutContainer(delta)
    /\ redelta[1].UnitsToRestart = delta.UnitsToRestart

\* The gate of Apply has been evaluated.
GateEvaluated == applied
WritesTLSFile == \E i \in DOMAIN delta.FilesToWrite : delta.FilesToWrite[i] \in TLSPaths

SavedAndLoaded == pc = "loaded" /\ saveOK /\ cryptoOK

\* C6: once SaveToDatabase(B) has committed, with truncate or without and
\* whatever the table held before, and every encryption and decryption
\* succeeded, LoadFromDatabase returns a bag in which every key of B maps to
\* the value B holds for it.
C6_LoadReturnsSaved ==
    SavedAndLoaded =>
        \A k \in DOMAIN saveBag :
            k \in DOMAIN loadedBag[1] /\ loadedBag[1][k] = saveBag[k]

\* After a truncating save the loaded bag is the saved bag; after a save that
\* does not truncate it has at least the keys of the saved bag.
C6_TruncatingSaveRoundTrips ==
    SavedAndLoaded =>
        IF truncating THEN loadedBag[1] = saveBag
        ELSE DOMAIN saveBag \subseteq DOMAIN loadedBag[1]

C6_StaleRow ==
    /\ SavedAndLoaded
    /\ ~truncating
    /\ "A" \in DOMAIN saveBag
    /\ saveBag["A"] = NewValue
    /\ loadedBag[1]["A"] = OldValue

Decrypted == pc = "decrypted"

PathRule(u) ==
    /\ Len(u.Path) = Len(UnitDir) + 1
    /\ SubSeq(u.Path, 1, Len(UnitDir)) = UnitDir
    /\ HasAzPrefix(u.Path[Len(u.Path)])

ContainerRule(u) ==
    CASE u.Type = TypeSimple ->
            /\ u.Container # <<>>
            /\ u.Container[1].Name # ""
            /\ HasImagePrefix(u.Container[1].ImageName)
            /\ u.Container[1].ImageTag # ""
      [] u.Type = TypeOneShot ->
            /\ u.Container # <<>>
            /\ HasImagePrefix(u.Container[1].ImageName)
            /\ u.Container[1].ImageTag # ""
      [] OTHER -> u.Container = <<>>

ScheduleRule(u) == (u.Schedule # "") <=> (u.Type = TypeTimer)
VolumeRule(u) == \A h \in DOMAIN u.Volumes : UnderSSLDir(h)
NoNilRule(u) == u.Nil = {}

BuildReturned == pc = "built"

C8_NoPath ==
    /\ BuildReturned
    /\ built[1].ok
    /\ unit.Path = <<>>
    /\ tried = 0

(***************************************************************************)
(* Properties of POST /sync.                                               *)
(***************************************************************************)
Running == {w \in DOMAIN workers : workers[w].at # "returned"}

\* C9: between two terminal transitions request() returns true to at most
\* one caller, a performSync goroutine is started only by a caller that got
\* true and at most once by each, and every other caller answers 202 without
\* starting one.
C9_OneSyncAtATime ==
    /\ granted <= terminals + 1
    /\ Cardinality(Running) <= 1
    /\ Len(workers) <= granted
    /\ \A w \in DOMAIN workers : starting[workers[w].by]
    /\ \A v, w \in DOMAIN workers : workers[v].by = workers[w].by => v = w
    /\ \A h \in Handlers :
          (hpc[h] = "responded" /\ ~starting[h]) =>
              /\ response[h][1].status = StatusAccepted
              /\ \A w \in DOMAIN workers : workers[w].by # h

C9_Witness ==
    /\ \E g, h \in Handlers :
          /\ hpc[g] = "responded" /\ starting[g]
          /\ hpc[h] = "responded" /\ ~starting[h]
    /\ Cardinality(Running) = 1
    /\ granted = 1

\* performSync has ended: it returned, or the process exited under it.
Ended(w) == workers[w].at = "returned" \/ ~alive

\* C10: on every path of performSync a reconciliation that was started makes
\* exactly one terminal transition, which sets in_progress back to false; so
\* when every performSync has ended there are as many terminal transitions
\* as grants and no sync is in progress.
C10_EverySyncReports ==
    (Len(workers) = granted /\ \A w \in DOMAIN workers : Ended(w)) =>
        (terminals = granted /\ ~currentSync.inProgress)

\* C10, with the self-restart gate: every reconciliation that was started
\* eventually makes its terminal transition or ends the process in the
\* self-restart gate of Apply; it makes at most one terminal transition, and
\* while the process lives in_progress is true exactly when a grant is still
\* without its terminal transition.
C10_SyncReportsOrExits ==
    /\ [](terminals <= granted /\ granted <= terminals + 1)
    /\ [](alive => (currentSync.inProgress <=> granted = terminals + 1))
    /\ \A n \in Handlers : (granted = n) ~> (terminals = n \/ ~alive)

C10_Witness ==
    /\ granted = 2
    /\ terminals = 2
    /\ alive
    /\ ~currentSync.inProgress
    /\ currentSync.delta # <<>>

C10_Exited ==
    /\ ~alive
    /\ granted = terminals + 1
    /\ currentSync.inProgress

\* The number of files and units a Delta holds.
DeltaSize(d) ==
    Cardinality(DOMAIN d.fileContent) + Len(d.UnitsToAdd) + Len(d.UnitsToChange)
        + Len(d.UnitsToRestart) + Len(d.UnitsToRemove)

\* The last error of what Synchronize returned is the given one.
ReturnedBecause(why) ==
    /\ result.errs # <<>>
    /\ result.errs[Len(result.errs)].op = "Synchronize"
    /\ result.errs[Len(result.errs)].item = why

\* Synchronize returned after an Apply in which an operation failed while
\* another item of the Delta was applied without an error.
PartlyApplied ==
    /\ ReturnedBecause("unable to apply delta")
    /\ Len(errs) < DeltaSize(delta)

\* C11: when Synchronize applies some changes and at least one operation of
\* Apply fails, what it returns carries a non-nil Delta together with a
\* non-empty error list.
C11_PartialResultHasDelta == PartlyApplied => (result.delta # <<>> /\ result.errs # <<>>)

\* The positions of the pull errors among the errors collected so far.
PullFailures == {i \in DOMAIN errs : errs[i].op = "pullImage"}

\* Several images were to be pulled and the pull of some but not all failed.
PullFailedForSome ==
    /\ PullFailures # {}
    /\ Cardinality(PullFailures) < Cardinality(PullRefs(desired))

\* C12: when the pull of the image of one of several desired units fails,
\* Synchronize does not return early because of it: the Delta is still
\* computed and Apply still runs.
C12_PullFailureDoesNotAbort == PullFailedForSome => ~ReturnedBecause("pull errors")

(***************************************************************************)
(* Properties of Apply.                                                    *)
(***************************************************************************)
\* The phase of each operation, in the order of the phases.
OpRank ==
    [WriteFile |-> 1, CreateUnit |-> 2, ChangeUnit |-> 3, StopUnit |-> 4,
     DisableUnitFiles |-> 5, Reload |-> 6, StartUnit |-> 7, EnableUnitFiles |-> 8,
     RestartUnit |-> 9, Remove |-> 10, Gate |-> 11]

\* Awaiting a completion belongs to the phase that dispatched the batch.
Rank(e) == IF e.op = "await" THEN OpRank[DispatchOp[e.item]] ELSE OpRank[e.op]

\* How often an operation is found among the first n operations attempted.
Count(op, n) == Cardinality({i \in 1..n : issued[i].op = op})
AwaitsOf(ch, n) == Cardinality({i \in 1..n : issued[i].op = "await" /\ issued[i].item = ch})

One(b) == IF b THEN 1 ELSE 0

\* How often the Delta makes Apply attempt each operation.
Expected ==
    [WriteFile |-> Cardinality(DOMAIN delta.fileContent),
     CreateUnit |-> Len(delta.UnitsToAdd),
     ChangeUnit |-> Len(delta.UnitsToChange),
     StopUnit |-> Len(delta.UnitsToRemove),
     DisableUnitFiles |-> One(delta.UnitsToRemove # <<>>),
     Reload |-> One(delta.UnitsToAdd # <<>> \/ delta.UnitsToChange # <<>>),
     StartUnit |-> Len(delta.UnitsToAdd),
     EnableUnitFiles |-> One(delta.UnitsToAdd # <<>>),
     RestartUnit |-> Len(delta.UnitsToChange) + Len(delta.UnitsToRestart),
     Remove |-> Len(delta.UnitsToRemove),
     Gate |-> 1]

JobsOf(ch) == {j \in jobs : j[1] = ch}

\* An operation of a phase after the batch of the channel was attempted.
PhaseOver(ch) == \E i \in DOMAIN issued : Rank(issued[i]) > OpRank[DispatchOp[ch]]

\* The positions of the log at which a phase begins.
PhaseStarts ==
    {j \in DOMAIN issued : j = 1 \/ Rank(issued[j - 1]) < Rank(issued[j])}

\* C13: Apply executes its phases in strict order: the operations are
\* attempted in the order of their phases, and when the first operation of
\* a phase is attempted, every operation of every earlier phase has been
\* attempted and the completions of every earlier stop, start and restart
\* have been awaited.
C13_PhasesInOrder ==
    /\ \A j \in 2..Len(issued) : Rank(issued[j - 1]) <= Rank(issued[j])
    /\ \A j \in PhaseStarts :
          /\ \A op \in DOMAIN OpRank :
                OpRank[op] < Rank(issued[j]) => Count(op, j - 1) = Expected[op]
          /\ \A ch \in Channels :
                OpRank[DispatchOp[ch]] < Rank(issued[j]) =>
                    AwaitsOf(ch, j - 1) = Expected[DispatchOp[ch]]
    /\ \A ch \in Channels : PhaseOver(ch) => (JobsOf(ch) = {} /\ chans[ch] = <<>>)

\* Apply ran every phase on a Delta with work in each of them, and a
\* dispatch failed on the way.
C13_Witness ==
    /\ pc \in {"returned", "exited"}
    /\ applied
    /\ delta.fileContent # <<>>
    /\ Len(delta.UnitsToAdd) = 2
    /\ Len(delta.UnitsToRemove) = 2
    /\ Len(restartUnits) = 2
    /\ \E i \in DOMAIN issued : issued[i].op = "StopUnit" /\ ~issued[i].ok

ReloadFailed == \E i \in DOMAIN issued : issued[i].op = "Reload" /\ ~issued[i].ok

ApplyEnded == pc \in {"returned", "exited"} /\ ~ReloadFailed

\* Every operation the Delta calls for was attempted.
AllAttempted == \A op \in DOMAIN OpRank : Count(op, Len(issued)) = Expected[op]

\* The error of the i-th operation attempted is in the list es.
ErrorIn(i, es) ==
    \E k \in DOMAIN es : es[k].op = issued[i].op /\ es[k].item = issued[i].item

Posted(ch) == Len(chans[ch]) + received[ch]
Dispatched(ch) == Count(DispatchOp[ch], Len(issued))

\* C16: in each of the stop, start and restart phases, one completion is
\* posted per dispatched unit, by the init system for an accepted job and by
\* Apply for a failed dispatch; a channel holds fewer completions than its
\* capacity whenever a send is due, so no send blocks; the await loop always
\* has a completion to receive or a job that will post one until it has
\* received one per unit, and the phase is over with exactly that many posted
\* and received.
C16_FanOutBookkeeping ==
    \A ch \in Channels :
        /\ Posted(ch) + Cardinality(JobsOf(ch)) = Dispatched(ch)
        /\ Dispatched(ch) <= Len(Batch(ch))
        /\ (JobsOf(ch) # {} \/ (pc = DispatchAt[ch] /\ idx <= Len(Batch(ch))))
              => Len(chans[ch]) < Len(Batch(ch))
        /\ (pc = AwaitAt[ch] /\ received[ch] < Len(Batch(ch)))
              => (chans[ch] # <<>> \/ JobsOf(ch) # {})
        /\ PhaseOver(ch) => (Posted(ch) = Len(Batch(ch)) /\ received[ch] = Len(Batch(ch)))

\* A batch of two was awaited after one dispatch failed and one job ran.
C16_Witness ==
    \E ch \in Channels :
        /\ PhaseOver(ch)
        /\ received[ch] = 2
        /\ \E i \in DOMAIN issued : issued[i].op = DispatchOp[ch] /\ ~issued[i].ok
        /\ \E i \in DOMAIN issued : issued[i].op = DispatchOp[ch] /\ issued[i].ok

(***************************************************************************)
(* Properties of LoadFromDatabase.                                         *)
(***************************************************************************)
\* The keys of the rows that decrypted.
DecryptedKeys == {table[i].key : i \in DOMAIN table \ skippedRows}

\* C20: LoadFromDatabase never fails because of a row that cannot be
\* decrypted: such a row is skipped, the load returns a bag, and the bag
\* holds exactly the keys of the rows that decrypted; the load fails only
\* when the query fails, whatever the rows hold.
C20_UndecryptableRowsSkipped ==
    /\ pc = "loaded" => (loadedBag # <<>> /\ DOMAIN loadedBag[1] = DecryptedKeys)
    /\ pc = "load_failed" => (loadedBag = <<>> /\ skippedRows = {})

\* A load that skipped a row and returned a bag with the key of another row.
C20_Witness ==
    /\ pc = "loaded"
    /\ skippedRows # {}
    /\ loadedBag # <<>>
    /\ DOMAIN loadedBag[1] # {}

(***************************************************************************)
(* The session Pool, with concurrent callers.                              *)
(***************************************************************************)
MaxLow == 1
MaxCallers == 2
MaxRounds == 2

Callers == 1..MaxCallers

\* NewPool: the entries it pre-allocates, sessions 1..n, none in use.
NewPool(n) == [i \in 1..n |-> [session |-> i, used |-> FALSE]]

\* The first entry, free or not.
FirstAny(entries) == IF entries = <<>> THEN 0 ELSE 1

\* Take's loop: the first entry that is not in use, 0 when there is none.
FirstFree(entries) ==
    IF \E i \in DOMAIN entries : ~entries[i].used
    THEN CHOOSE i \in DOMAIN entries :
            /\ ~entries[i].used
            /\ \A j \in 1..(i - 1) : entries[j].used
    ELSE 0

\* Return's test on an entry: it stays in the pool while keep holds no more
\* than low entries, or while it is in use.
StaysWithinLow(keep, n, entry) == Len(keep) <= n
Stays(keep, n, entry) == Len(keep) <= n \/ entry.used

\* Return's loop from entry i on: the entry of the returned session is marked
\* free; an entry is kept while keep holds no more than low entries or the
\* entry is in use, and its session is closed otherwise.
RECURSIVE ReturnLoop(_, _, _, _, _, _)
ReturnLoop(entries, i, session, n, keep, shut) ==
    IF i > Len(entries) THEN [keep |-> keep, closed |-> shut]
    ELSE LET entry == IF entries[i].session = session
                      THEN [entries[i] EXCEPT !.used = FALSE]
                      ELSE entries[i]
         IN  IF Stays(keep, n, entry)
             THEN ReturnLoop(entries, i + 1, session, n, Append(keep, entry), shut)
             ELSE ReturnLoop(entries, i + 1, session, n, keep, shut \cup {entry.session})

NoLease == [at |-> "idle", session |-> 0, was |-> "", rounds |-> 0, released |-> 0]

InitPool ==
    /\ pc = "pool"
    /\ low \in 0..MaxLow
    /\ available = NewPool(low)
    /\ created = low
    /\ lock = 0
    /\ callers = [c \in Callers |-> NoLease]
    /\ closed = {}
    /\ bag = EmptyBag
    /\ desired = [Units |-> <<>>, Files |-> NoFiles]
    /\ actual = [Units |-> <<>>, Files |-> NoFiles]
    /\ delta = EmptyDelta
    /\ HostIdle
    /\ ApplyIdle
    /\ SecretsIdle
    /\ BuilderIdle
    /\ SyncIdle
    /\ FanIdle
    /\ LeaseIdle

\* What no step of the pool changes.
poolFrame == <<pc, coreVars, secretVars, builderVars, syncVars, fanVars, leaseVars, low>>

\* pool.lock.Lock() at the top of Take.
TakeLock(c) ==
    /\ callers[c].at = "idle"
    /\ callers[c].rounds < MaxRounds
    /\ lock = 0
    /\ lock' = c
    /\ callers' = [callers EXCEPT ![c].at = "take", ![c].rounds = @ + 1]
    /\ UNCHANGED <<available, closed, created, poolFrame>>

\* The body of Take, the mutex held: the first free entry is marked used and
\* handed out; without one the creator makes a session, which is appended as
\* used, or fails, and Take returns the error.
TakeBody(c) ==
    /\ callers[c].at = "take"
    /\ lock = c
    /\ lock' = 0
    /\ LET i == FirstFree(available)
       IN  IF i # 0
           THEN /\ available' = [available EXCEPT ![i].used = TRUE]
                /\ callers' = [callers EXCEPT
                                  ![c].at = "leased",
                                  ![c].session = available[i].session,
                                  ![c].was = IF available[i].used THEN "used" ELSE "free"]
                /\ UNCHANGED created
           ELSE \E ok \in BOOLEAN :
                   IF ok
                   THEN /\ created' = created + 1
                        /\ available' = Append(available,
                                               [session |-> created + 1, used |-> TRUE])
                        /\ callers' = [callers EXCEPT
                                          ![c].at = "leased",
                                          ![c].session = created + 1,
                                          ![c].was = "new"]
                   ELSE /\ callers' = [callers EXCEPT ![c].at = "idle"]
                        /\ UNCHANGED <<available, created>>
    /\ UNCHANGED <<closed, poolFrame>>

\* lease.Release() of a pooled lease: pool.lock.Lock() at the top of Return.
ReturnLock(c) ==
    /\ callers[c].at = "leased"
    /\ lock = 0
    /\ lock' = c
    /\ callers' = [callers EXCEPT ![c].at = "return"]
    /\ UNCHANGED <<available, closed, created, poolFrame>>

\* The body of Return, the mutex held.
ReturnBody(c) ==
    /\ callers[c].at = "return"
    /\ lock = c
    /\ lock' = 0
    /\ LET r == ReturnLoop(available, 1, callers[c].session, low, <<>>, {})
       IN  /\ available' = r.keep
           /\ closed' = closed \cup r.closed
    /\ callers' = [callers EXCEPT ![c].at = "idle", ![c].session = 0, ![c].was = "",
                                  ![c].released = @ + 1]
    /\ UNCHANGED <<created, poolFrame>>

NextPool ==
    \E c \in Callers :
        \/ TakeLock(c)
        \/ TakeBody(c)
        \/ ReturnLock(c)
        \/ ReturnBody(c)

SpecPool == InitPool /\ [][NextPool]_vars

(***************************************************************************)
(* Properties of the Pool.                                                 *)
(***************************************************************************)
\* The callers whose lease is not released yet.
Leased == {c \in Callers : callers[c].session # 0}

\* The entries of the pool that hold session s.
EntriesOf(s) == {i \in DOMAIN available : available[i].session = s}

\* C17: whatever the interleaving of Take and Release, no session is wrapped
\* by two unreleased leases; a leased session has one entry in the pool, in
\* use and not closed; and Take handed out only a session whose used flag was
\* false, or one the creator had just made.
C17_SessionExclusive ==
    /\ \A c1, c2 \in Leased : c1 # c2 => callers[c1].session # callers[c2].session
    /\ \A c \in Leased :
          /\ Cardinality(EntriesOf(callers[c].session)) = 1
          /\ \A i \in EntriesOf(callers[c].session) : available[i].used
          /\ callers[c].session \notin closed
          /\ callers[c].was \in {"free", "new"}

\* Two callers hold leases at once, one on a session that was returned
\* before and one on a session made for it.
C17_Witness ==
    /\ Cardinality(Leased) = 2
    /\ \E c \in Leased : callers[c].was = "free" /\ callers[c].session > low
    /\ \E c \in Leased : callers[c].was = "new"

\* Some lease was released and no session is in use.
AllReturned ==
    /\ \E c \in Callers : callers[c].released > 0
    /\ \A c \in Callers : callers[c].at \in {"idle", "take"}
    /\ \A i \in DOMAIN available : ~available[i].used

\* C18: after a Return that leaves no session in use, the pool holds no more
\* than low sessions.
C18_IdlePoolWithinLow == AllReturned => Len(available) <= low

\* C40: whatever the interleaving of Take and Release, no session wrapped by
\* an unreleased lease was closed, so Take never handed out a closed session,
\* and no entry of the pool holds a session that Return closed.
C40_NoClosedSessionInPool ==
    /\ \A c \in Callers :
          callers[c].at \in {"leased", "return"} => callers[c].session \notin closed
    /\ \A i \in DOMAIN available : available[i].session \notin closed

\* Return closed a session, and a later Take handed out a session of the pool
\* while another caller holds a lease as well.
C40_Witness ==
    /\ closed # {}
    /\ \E c \in Callers : callers[c].at = "leased" /\ callers[c].was = "free"
    /\ \E c \in Callers : callers[c].at = "leased" /\ callers[c].session \in DOMAIN available
    /\ Cardinality(Leased) = 2

(***************************************************************************)
(* The Secret Bag of a lease, access by access.                            *)
(***************************************************************************)
MaxAccesses == 3

\* The secrets a caller sets and the keys it validates or deletes.
SetInputs ==
    {[k \in {} |-> NoBytes], [k \in {"DB_PASS"} |-> <<9>>], [k \in {"TLS_KEY"} |-> OldPEM]}
KeyInputs == {{}, {"DB_PASS"}, {"TLS_KEY", "API_TOKEN"}}

\* A method with a pointer receiver works on the caller's lease: what
\* GetSecrets caches stays cached.
PointerReceiver(cached, after) == after

\* A method with a value receiver works on a copy of the lease: what
\* GetSecrets caches in the copy is gone when the method returns.
ValueReceiver(cached, after) == cached

\* Where a GetSecrets call got its bag.
Got(cached, g) ==
    IF cached # <<>> THEN "cached" ELSE IF g.ok THEN "loaded" ELSE "failed"

\* The call is logged, and a load is counted.
Access(op, cached, g) ==
    /\ accesses' = Append(accesses, [op |-> op, got |-> Got(cached, g)])
    /\ loads' = IF Got(cached, g) = "loaded" THEN loads + 1 ELSE loads

\* A bag the lease has cached is the object the method changed.
Shared(cached, b) == IF cached = <<>> THEN cached ELSE <<b>>

InitLease ==
    /\ pc = "lease"
    /\ bag \in {FullBag, NoKeyBag}
    /\ desired = [Units |-> <<>>, Files |-> NoFiles]
    /\ actual = [Units |-> <<>>, Files |-> NoFiles]
    /\ delta = EmptyDelta
    /\ HostIdle
    /\ ApplyIdle
    /\ loads = 0
    /\ accesses = <<>>
    /\ SecretsIdle
    /\ BuilderIdle
    /\ SyncIdle
    /\ FanIdle
    /\ PoolIdle

\* What no access through the lease changes.
leaseFrame == <<pc, actual, delta, hostVars, errs, restartUnits, needsReload, applied,
                restartNeeded, result, redelta, ops, faults, secretVars, builderVars,
                syncVars, fanVars, poolVars>>

MayAccess == pc = "lease" /\ Len(accesses) < MaxAccesses

\* lease.GetSecrets(), called by the holder of the lease.
LeaseGetSecretsStep ==
    /\ MayAccess
    /\ \E dbOK \in BOOLEAN :
          LET g == GetSecrets(leaseSecrets, bag, dbOK)
          IN  /\ leaseSecrets' = PointerReceiver(leaseSecrets, g.cached)
              /\ Access("GetSecrets", leaseSecrets, g)
    /\ UNCHANGED <<bag, desired, leaseFrame>>

\* SessionLease.ReadDesiredState.
LeaseReadDesiredStateStep ==
    /\ MayAccess
    /\ \E dbOK, unitsOK \in BOOLEAN :
          LET g == GetSecrets(leaseSecrets, bag, dbOK)
              f == DesiredTLSFiles(g.bag)
          IN  /\ leaseSecrets' = ValueReceiver(leaseSecrets, g.cached)
              /\ Access("ReadDesiredState", leaseSecrets, g)
              /\ desired' = IF g.ok /\ unitsOK /\ f.ok
                            THEN [Units |-> dbUnits, Files |-> f.files]
                            ELSE desired
    /\ UNCHANGED <<bag, leaseFrame>>

\* SessionLease.ValidateSecretKeys.
LeaseValidateSecretKeysStep ==
    /\ MayAccess
    /\ \E dbOK \in BOOLEAN : \E keys \in KeyInputs :
          LET g == GetSecrets(leaseSecrets, bag, dbOK)
          IN  /\ leaseSecrets' = ValueReceiver(leaseSecrets, g.cached)
              /\ Access("ValidateSecretKeys", leaseSecrets, g)
    /\ UNCHANGED <<bag, desired, leaseFrame>>

\* SessionLease.ListSecretKeys.
LeaseListSecretKeysStep ==
    /\ MayAccess
    /\ \E dbOK \in BOOLEAN :
          LET g == GetSecrets(leaseSecrets, bag, dbOK)
          IN  /\ leaseSecrets' = ValueReceiver(leaseSecrets, g.cached)
              /\ Access("ListSecretKeys", leaseSecrets, g)
    /\ UNCHANGED <<bag, desired, leaseFrame>>

\* SessionLease.SetSecrets: nothing to do for no secrets; otherwise the bag
\* it got is changed in place and saved.
LeaseSetSecretsStep ==
    /\ MayAccess
    /\ \E dbOK, saved \in BOOLEAN : \E secrets \in SetInputs :
          LET g == GetSecrets(leaseSecrets, bag, dbOK)
              merged == [k \in DOMAIN g.bag \cup DOMAIN secrets |->
                            IF k \in DOMAIN secrets THEN secrets[k] ELSE g.bag[k]]
          IN  IF DOMAIN secrets = {}
              THEN /\ accesses' = Append(accesses, [op |-> "SetSecrets", got |-> "none"])
                   /\ UNCHANGED <<bag, leaseSecrets, loads>>
              ELSE /\ Access("SetSecrets", leaseSecrets, g)
                   /\ leaseSecrets' =
                         ValueReceiver(IF g.ok THEN Shared(leaseSecrets, merged)
                                       ELSE leaseSecrets, g.cached)
                   /\ bag' = IF g.ok /\ saved THEN merged ELSE bag
    /\ UNCHANGED <<desired, leaseFrame>>

\* SessionLease.DeleteSecrets: nothing to do for no keys; otherwise the bag it
\* got is changed in place and saved.
LeaseDeleteSecretsStep ==
    /\ MayAccess
    /\ \E dbOK, saved \in BOOLEAN : \E keys \in KeyInputs :
          LET g == GetSecrets(leaseSecrets, bag, dbOK)
              kept == [k \in DOMAIN g.bag \ keys |-> g.bag[k]]
          IN  IF keys = {}
              THEN /\ accesses' = Append(accesses, [op |-> "DeleteSecrets", got |-> "none"])
                   /\ UNCHANGED <<bag, leaseSecrets, loads>>
              ELSE /\ Access("DeleteSecrets", leaseSecrets, g)
                   /\ leaseSecrets' =
                         ValueReceiver(IF g.ok THEN Shared(leaseSecrets, kept)
                                       ELSE leaseSecrets, g.cached)
                   /\ bag' = IF g.ok /\ saved THEN kept ELSE bag
    /\ UNCHANGED <<desired, leaseFrame>>

\* Release, and Take of a new lease: Take builds a SessionLease without
\* secrets.
LeaseRenewStep ==
    /\ pc = "lease"
    /\ accesses # <<>>
    /\ leaseSecrets' = <<>>
    /\ loads' = 0
    /\ accesses' = <<>>
    /\ UNCHANGED <<bag, desired, leaseFrame>>

NextLease ==
    \/ LeaseGetSecretsStep
    \/ LeaseReadDesiredStateStep
    \/ LeaseValidateSecretKeysStep
    \/ LeaseListSecretKeysStep
    \/ LeaseSetSecretsStep
    \/ LeaseDeleteSecretsStep
    \/ LeaseRenewStep

SpecLease == InitLease /\ [][NextLease]_vars

(***************************************************************************)
(* Properties of the lease's Secret Bag.                                   *)
(***************************************************************************)
\* C19: within one lease the bag is loaded from the database at most once,
\* every access after one that obtained the bag uses the cached bag without
\* another load, and a lease through which nothing was accessed has no
\* cached bag.
C19_BagLoadedOncePerLease ==
    /\ loads <= 1
    /\ \A i, j \in DOMAIN accesses :
          (i < j /\ accesses[i].got \in {"cached", "loaded"}) =>
              accesses[j].got \in {"cached", "none"}
    /\ accesses = <<>> => (leaseSecrets = <<>> /\ loads = 0)

(***************************************************************************)
(* Properties of SetSecrets, DeleteSecrets and SaveToDatabase.             *)
(***************************************************************************)
KeysOfRows(t) == {t[i].key : i \in DOMAIN t}

\* No two rows of t have the same key.
UniqueKeys(t) == \A i, j \in DOMAIN t : t[i].key = t[j].key => i = j

\* DeleteSecrets returned nil.
Deleted == pc = "saved" /\ lastCall.op = "DeleteSecrets" /\ saveOK

\* C21: after DeleteSecrets(keys) succeeds on a store from which the keys K
\* were loaded, the table has rows for exactly the keys K minus keys, and the
\* bag holds exactly K minus keys.
C21_DeleteLeavesExactlyRest ==
    Deleted =>
        /\ KeysOfRows(table) = lastCall.held \ lastCall.arg
        /\ DOMAIN saveBag = lastCall.held \ lastCall.arg

\* SetSecrets or DeleteSecrets returned nil on a table with one row per key.
SavedOverUnique ==
    /\ pc = "saved"
    /\ lastCall.op \in {"SetSecrets", "DeleteSecrets"}
    /\ saveOK
    /\ UniqueKeys(lastCall.before)

\* C22: SetSecrets and DeleteSecrets leave exactly one row for each secret
\* key in the table.
C22_OneRowPerKey == SavedOverUnique => UniqueKeys(table)

\* The rows a committed save left in place.
Retained == IF truncating THEN <<>> ELSE lastCall.before

\* C23: SaveToDatabase is atomic: a save that returns nil has replaced or
\* extended the table by rows of its bag in one step, and a save in which
\* Begin, the truncate, the copy or the commit failed returns an error and
\* leaves the table with exactly the rows it had before the call.
C23_SaveIsAtomic ==
    pc = "saved" =>
        IF saveOK
        THEN /\ Len(table) >= Len(Retained)
             /\ SubSeq(table, 1, Len(Retained)) = Retained
             /\ \A i \in (Len(Retained) + 1)..Len(table) : table[i].key \in DOMAIN saveBag
             /\ Len(table) - Len(Retained) =
                    Cardinality(DOMAIN saveBag) - (IF cryptoOK THEN 0 ELSE 1)
        ELSE table = lastCall.before

\* A truncating save of a bag failed on a table that held rows.
C23_Witness ==
    /\ pc = "saved"
    /\ ~saveOK
    /\ truncating
    /\ lastCall.before # <<>>
    /\ saveBag # EmptyBag
    /\ table = lastCall.before

(***************************************************************************)
(* Properties of Between: determinism and the classification of units.     *)
(***************************************************************************)
\* C24: two calls of Between with equal desired state, actual state and
\* secrets return equal Deltas, element by element and in the same order.
C24_BetweenDeterministic == pc = "again" => redelta[1] = delta

\* The desired unit Between keeps for name n.
Kept(n) == DesiredByName(desired.Units)[n]

\* The actual units named n, by position.
ActualsNamed(n) == {i \in DOMAIN actual.Units : UnitName(actual.Units[i]) = n}

RenderFails(d) == WriteUnit(d, bag).errs # {}

\* C25: a desired unit with an actual namesake whose unit file cannot be
\* rendered is in none of UnitsToAdd, UnitsToChange, UnitsToRestart and
\* UnitsToRemove.
C25_UnrenderableUnitSkipped ==
    pc = "output" =>
        \A n \in DesiredNames \cap ActualNames :
            RenderFails(Kept(n)) =>
                /\ Kept(n) \notin Elems(delta.UnitsToAdd)
                /\ Kept(n) \notin Elems(delta.UnitsToChange)
                /\ Kept(n) \notin Elems(delta.UnitsToRestart)
                /\ n \notin RemoveNames

\* The image of desired unit u differs from that of an actual unit of its name.
ImageChanged(u) ==
    /\ u.Container # <<>>
    /\ u.Container[1].ImageID # ""
    /\ \E i \in ActualsNamed(UnitName(u)) : actual.Units[i].ImageID # u.Container[1].ImageID

\* C26: each entry of UpdatedContainers is the Container of a unit of
\* UnitsToChange, and of one whose container image changed.
C26_UpdatedContainersAreImageChanges ==
    pc = "output" =>
        \A k \in DOMAIN delta.UpdatedContainers :
            \E i \in DOMAIN delta.UnitsToChange :
                /\ delta.UnitsToChange[i].Container = <<delta.UpdatedContainers[k]>>
                /\ ImageChanged(delta.UnitsToChange[i])

\* The rule of the classification, for desired unit d and actual unit a.
RuleWillUpdate(d, a) ==
    \/ d.Container # <<>> /\ d.Container[1].ImageID # "" /\ d.Container[1].ImageID # a.ImageID
    \/ WriteUnit(d, bag).text # a.Content

RuleShouldRestart(d, a) ==
    \/ RuleWillUpdate(d, a)
    \/ \E h \in DOMAIN d.Volumes : h \in Elems(delta.FilesToWrite)

RuleBucket(d, a) ==
    IF RuleWillUpdate(d, a) /\ d.Container # <<>> THEN "change"
    ELSE IF RuleShouldRestart(d, a) THEN "restart"
    ELSE "none"

\* C27 as stated: for every actual unit and every desired unit of its name
\* that renders, the desired unit is in UnitsToChange iff the rule says
\* "change" and in UnitsToRestart iff the rule says "restart".
C27_ClassificationAnyUnit ==
    pc = "output" =>
        \A i \in DOMAIN actual.Units : \A j \in DOMAIN desired.Units :
            LET a == actual.Units[i]
                d == desired.Units[j]
            IN  (UnitName(a) = UnitName(d) /\ ~RenderFails(d)) =>
                    /\ d \in Elems(delta.UnitsToChange) <=> RuleBucket(d, a) = "change"
                    /\ d \in Elems(delta.UnitsToRestart) <=> RuleBucket(d, a) = "restart"

\* The number of entries of s equal to x.
CountIn(s, x) == Cardinality({i \in DOMAIN s : s[i] = x})

\* C27 amended: for every name with actual units, the desired unit Between
\* keeps for it (the last of that name), when it renders, is appended to
\* UnitsToChange once per actual unit of that name for which the rule says
\* "change", to UnitsToRestart once per actual unit for which it says
\* "restart", and for no other actual unit.
C27_ClassificationKeptUnit ==
    pc = "output" =>
        \A n \in DesiredNames \cap ActualNames :
            ~RenderFails(Kept(n)) =>
                /\ CountIn(delta.UnitsToChange, Kept(n)) =
                      Cardinality({i \in ActualsNamed(n) :
                                      RuleBucket(Kept(n), actual.Units[i]) = "change"})
                /\ CountIn(delta.UnitsToRestart, Kept(n)) =
                      Cardinality({i \in ActualsNamed(n) :
                                      RuleBucket(Kept(n), actual.Units[i]) = "restart"})

\* One unit was changed for its text alone, another restarted for a mounted
\* file, and both render.
C27_Witness ==
    /\ pc = "output"
    /\ \E i \in DOMAIN delta.UnitsToChange :
          /\ ~RenderFails(delta.UnitsToChange[i])
          /\ ~ImageChanged(delta.UnitsToChange[i])
    /\ \E i \in DOMAIN delta.UnitsToRestart :
          /\ ~RenderFails(delta.UnitsToRestart[i])
          /\ \E h \in DOMAIN delta.UnitsToRestart[i].Volumes : h \in Elems(delta.FilesToWrite)

MissingFile(p) == p \notin DOMAIN actual.Files \/ actual.Files[p].isNil

\* C29: a desired TLS file is in FilesToWrite, with its desired bytes stored
\* for it, exactly when the actual file is missing or its bytes differ; a
\* missing file is written whatever the desired bytes are.
C29_FilesToWriteIffMissingOrDifferent ==
    pc = "output" =>
        \A p \in DOMAIN desired.Files :
            (/\ p \in Elems(delta.FilesToWrite)
             /\ p \in DOMAIN delta.fileContent
             /\ delta.fileContent[p] = desired.Files[p])
            <=> (MissingFile(p) \/ actual.Files[p].bytes # desired.Files[p].bytes)

(***************************************************************************)
(* Properties of Apply: the Reload.                                        *)
(***************************************************************************)
Reloads == Count("Reload", Len(issued))

ReloadDue == delta.UnitsToAdd # <<>> \/ delta.UnitsToChange # <<>>

\* Apply is past the point at which it reloads.
PastReload ==
    \/ pc \in {"returned", "exited"}
    \/ \E i \in DOMAIN issued : Rank(issued[i]) > OpRank["Reload"]

\* C30: Apply invokes Reload at most once, only when UnitsToAdd or
\* UnitsToChange is non-empty, and then always, whether or not the unit files
\* could be written; a Delta with only restarts, removals or files to write
\* triggers no Reload.
C30_ReloadIffUnitsWritten ==
    /\ Reloads <= 1
    /\ Reloads = 1 => ReloadDue
    /\ (PastReload /\ ReloadDue) => Reloads = 1

\* Apply reloaded although the only unit file it had to write failed.
C30_Witness ==
    /\ pc \in {"returned", "exited"}
    /\ Len(delta.UnitsToAdd) = 1
    /\ delta.UnitsToChange = <<>>
    /\ \E i \in DOMAIN issued : issued[i].op = "CreateUnit" /\ ~issued[i].ok
    /\ Reloads = 1

\* Apply ran to its end with restarts, removals and files only.
C30_NoReloadSeen ==
    /\ pc \in {"returned", "exited"}
    /\ ~ReloadDue
    /\ delta.UnitsToRemove # <<>>
    /\ DOMAIN delta.fileContent # {}
    /\ Reloads = 0

(***************************************************************************)
(* Properties of Apply: the starts and the restarts.                       *)
(***************************************************************************)
\* The items of the operations of one kind, in the order of the log.
ItemsOf(op) ==
    LET sel == SelectSeq(issued, LAMBDA r : r.op = op)
    IN  [i \in DOMAIN sel |-> sel[i].item]

\* Apply is past its restart phase.
RestartsOver == pc \in {"remove", "gate", "returned", "exited"} /\ ~ReloadFailed

\* C31: when Reload does not fail, Apply issues RestartUnit once for each
\* unit of UnitsToChange followed by each unit of UnitsToRestart, and
\* StartUnit once for each unit of UnitsToAdd; no unit of UnitsToAdd or
\* UnitsToRemove is restarted, and a unit whose unit file could not be
\* rewritten is restarted all the same.
C31_RestartsAndStarts ==
    RestartsOver =>
        /\ ItemsOf("RestartUnit") =
               UnitNames(delta.UnitsToChange) \o UnitNames(delta.UnitsToRestart)
        /\ ItemsOf("StartUnit") = UnitNames(delta.UnitsToAdd)
        /\ \A i \in DOMAIN issued :
               issued[i].op = "RestartUnit" => issued[i].item \notin AddNames \cup RemoveNames

\* The rewrite of a unit file failed and the unit was restarted after a
\* Reload, next to started and removed units.
C31_Witness ==
    /\ RestartsOver
    /\ delta.UnitsToAdd # <<>>
    /\ delta.UnitsToRemove # <<>>
    /\ \E i, j \in DOMAIN issued :
          /\ issued[i].op = "ChangeUnit"
          /\ ~issued[i].ok
          /\ issued[j].op = "RestartUnit"
          /\ issued[j].item = Base(issued[i].item)

(***************************************************************************)
(* Properties of Synchronize: the image ids around the pulls.              *)
(***************************************************************************)
\* The steps of Synchronize that read desired state, actual state or images.
ReadSteps == {"GetSecrets", "readDesiredUnits", "DesiredTLSFiles", "ReadActualState",
              "ReadImages"}

ReadFailed == \E i \in DOMAIN errs : errs[i].op \in ReadSteps

\* The actual units, by position, whose desired namesake runs a container
\* from a reference whose local image the pull replaced.
PulledOver ==
    {i \in DOMAIN actual.Units :
        /\ UnitName(actual.Units[i]) \in DOMAIN DesiredByName(desired.Units)
        /\ Kept(UnitName(actual.Units[i])).Container # <<>>
        /\ RefOf(Kept(UnitName(actual.Units[i])).Container[1]) \in downloadedNewer}

InUnitsToChange(d) == \E j \in DOMAIN delta.UnitsToChange : delta.UnitsToChange[j] = d

\* An error in reading desired state, actual state or images ends Synchronize
\* before Between and Apply.
ReadErrorEndsSynchronize ==
    ReadFailed =>
        /\ pc = "failed"
        /\ delta = EmptyDelta
        /\ ~applied
        /\ ops = <<>>
        /\ result.delta = <<>>

RunningFor(d) == d.Container[1].Name # "" /\ d.Container[1].Name \in DOMAIN containers

MaxImages == 2
MaxCreated == 2

\* The summaries ImageList may return; an image built reproducibly carries
\* the creation time 0.
SummaryInputs ==
    {ImageSummary(id, c) : id \in {"sha256:a", "sha256:b"}, c \in 0..MaxCreated}

InitImages ==
    /\ pc = "images_input"
    /\ bag = FullBag
    /\ \E u \in {WebUnit(""), JobUnit(""), TickUnit("daily")} :
          /\ desired = [Units |-> <<u>>, Files |-> NoFiles]
          /\ actual = [Units |-> <<ActualSystemdUnit(u.Path, "", TextOf(u))>>, Files |-> NoFiles]
    /\ delta = EmptyDelta
    /\ dbUnits = <<>>
    /\ hostUnits = [p \in {} |-> NoText]
    /\ hostFiles = [p \in {} |-> <<>>]
    /\ images \in [{WebRef} -> SeqsUpTo(SummaryInputs, MaxImages)]
    /\ downloadedNewer = {}
    /\ registry = [r \in {} |-> ""]
    /\ containers \in {[c \in {} |-> ""], [c \in {"web"} |-> "sha256:c"]}
    /\ ApplyIdle
    /\ AuxIdle

\* What ReadImages leaves alone.
imagesFrame == <<bag, delta, hostVars, leaseSecrets, restartUnits, needsReload, applied,
                 restartNeeded, result, redelta, ops, faults, auxVars>>

\* actual.ReadImages(s, *desired): a Docker call may fail.
ActualReadImagesCall ==
    /\ pc = "images_input"
    /\ \E ok \in BOOLEAN :
          IF ok
          THEN /\ actual' = ActualReadImages(actual, desired.Units, images, containers)
               /\ pc' = "actual_read"
               /\ UNCHANGED errs
          ELSE /\ errs' = <<Err("ReadImages", "docker")>>
               /\ pc' = "images_failed"
               /\ UNCHANGED actual
    /\ UNCHANGED desired
    /\ UNCHANGED imagesFrame

\* desired.ReadImages(s): a Docker call may fail.
DesiredReadImagesCall ==
    /\ pc = "actual_read"
    /\ \E ok \in BOOLEAN :
          IF ok
          THEN /\ desired' = DesiredReadImages(desired, images)
               /\ pc' = "desired_read"
               /\ UNCHANGED errs
          ELSE /\ errs' = <<Err("ReadImages", "docker")>>
               /\ pc' = "images_failed"
               /\ UNCHANGED desired
    /\ UNCHANGED actual
    /\ UNCHANGED imagesFrame

NextImages == ActualReadImagesCall \/ DesiredReadImagesCall

SpecImages == InitImages /\ [][NextImages]_vars

\* The ids of the matching images with the greatest creation timestamp.
Newest(summaries) ==
    {summaries[i].ID : i \in {j \in DOMAIN summaries :
        \A k \in DOMAIN summaries : summaries[k].Created <= summaries[j].Created}}

\* The id the rule gives a unit's container: one of the newest matching
\* images, empty when none matches.
Selected(id, container) ==
    LET matching == ImageList(images, RefOf(container))
    IN  IF matching = <<>> THEN id = "" ELSE id \in Newest(matching)

\* C33: ReadImages gives a unit with a Container the id of the matching image
\* with the greatest creation timestamp, and no id when no image matches; an
\* actual unit whose desired container has a name and is running gets the id
\* of the running container instead.
C33_NewestMatchingImageSelected ==
    /\ pc \in {"actual_read", "desired_read"} =>
          \A i \in DOMAIN actual.Units :
             LET d == Kept(UnitName(actual.Units[i]))
             IN  d.Container # <<>> =>
                    IF RunningFor(d)
                    THEN actual.Units[i].ImageID = containers[d.Container[1].Name]
                    ELSE Selected(actual.Units[i].ImageID, d.Container[1])
    /\ pc = "desired_read" =>
          \A i \in DOMAIN desired.Units :
             desired.Units[i].Container # <<>> =>
                Selected(desired.Units[i].Container[1].ImageID, desired.Units[i].Container[1])

\* The rule when the newest matching image has a creation time above 0.
C33_NewestSelectedWhenCreatedPositive ==
    /\ pc \in {"actual_read", "desired_read"} =>
          \A i \in DOMAIN actual.Units :
             LET d == Kept(UnitName(actual.Units[i]))
             IN  (/\ d.Container # <<>>
                  /\ \E k \in DOMAIN ImageList(images, RefOf(d.Container[1])) :
                        ImageList(images, RefOf(d.Container[1]))[k].Created > 0) =>
                    IF RunningFor(d)
                    THEN actual.Units[i].ImageID = containers[d.Container[1].Name]
                    ELSE Selected(actual.Units[i].ImageID, d.Container[1])
    /\ pc = "desired_read" =>
          \A i \in DOMAIN desired.Units :
             (/\ desired.Units[i].Container # <<>>
              /\ \E k \in DOMAIN ImageList(images, RefOf(desired.Units[i].Container[1])) :
                    ImageList(images, RefOf(desired.Units[i].Container[1]))[k].Created > 0) =>
                Selected(desired.Units[i].Container[1].ImageID, desired.Units[i].Container[1])

(***************************************************************************)
(* PullAllImages: one goroutine per reference, one result per goroutine.   *)
(***************************************************************************)
MaxPullUnits == 2

\* The desired units PullAllImages is given.
PullUnitPool == {WebUnit(""), WebUnitPort(""), JobUnit(""), ApiUnit(""), TickUnit("daily")}

\* PullAllImages returning without receiving.
AwaitNoResults(refs) == 0

\* The number of results PullAllImages receives: len(imageRefs).
AwaitResults(refs) == Cardinality(refs)

InitPull ==
    /\ pc = "spawn"
    /\ bag = FullBag
    /\ desired \in [Units : SeqsUpTo(PullUnitPool, MaxPullUnits), Files : {NoFiles}]
    /\ actual = [Units |-> <<>>, Files |-> NoFiles]
    /\ delta = EmptyDelta
    /\ dbUnits = <<>>
    /\ hostUnits = [p \in {} |-> NoText]
    /\ hostFiles = [p \in {} |-> <<>>]
    /\ images = [r \in {} |-> <<>>]
    /\ downloadedNewer = {}
    /\ registry = Published("sha256:b")
    /\ containers = [c \in {} |-> ""]
    /\ ApplyIdle
    /\ idx = 1
    /\ chans = [ch \in {"results"} |-> <<>>]
    /\ jobs = {}
    /\ received = [ch \in {"results"} |-> 0]
    /\ issued = <<>>
    /\ returned = <<>>
    /\ SecretsIdle
    /\ BuilderIdle
    /\ SyncIdle
    /\ PoolIdle
    /\ LeaseIdle

\* What no step of PullAllImages or pullImage changes.
pullFrame == <<bag, desired, actual, delta, dbUnits, hostUnits, hostFiles, downloadedNewer,
               registry, containers, leaseSecrets, restartUnits, needsReload, applied,
               restartNeeded, result, redelta, ops, faults, idx, secretVars, builderVars,
               syncVars, poolVars, leaseVars>>

Spawned == {issued[i].item : i \in {j \in DOMAIN issued : issued[j].op = "go"}}

\* go s.pullImage(ref, results), for the references in the order the map
\* yields them; then the receiving loop begins.
SpawnStep ==
    /\ pc = "spawn"
    /\ IF Spawned = PullRefs(desired)
       THEN /\ pc' = "collect"
            /\ UNCHANGED <<jobs, issued>>
       ELSE /\ \E ref \in PullRefs(desired) \ Spawned :
                  /\ jobs' = jobs \cup {[ref |-> ref, at |-> "pull", ok |-> TRUE]}
                  /\ issued' = Issue("go", ref, TRUE)
            /\ UNCHANGED pc
    /\ UNCHANGED <<errs, chans, received, returned, images>>
    /\ UNCHANGED pullFrame

\* pullImage: ImagePull, which may fail.
ImagePullStep ==
    /\ \E j \in jobs, ok \in BOOLEAN :
          /\ j.at = "pull"
          /\ jobs' = (jobs \ {j})
                        \cup {[j EXCEPT !.at = IF ok THEN "read" ELSE "send", !.ok = ok]}
    /\ UNCHANGED <<pc, errs, chans, received, issued, returned, images>>
    /\ UNCHANGED pullFrame

\* pullImage: ReadAll of the progress, which may fail; when it ends the image
\* of the reference is the published one.
ReadAllStep ==
    /\ \E j \in jobs, ok \in BOOLEAN :
          /\ j.at = "read"
          /\ jobs' = (jobs \ {j}) \cup {[j EXCEPT !.at = "send", !.ok = ok]}
          /\ images' = IF ok
                       THEN [r \in DOMAIN images \cup {j.ref} |->
                                IF r = j.ref THEN <<ImageSummary(registry[r], PulledCreated)>>
                                ELSE images[r]]
                       ELSE images
    /\ UNCHANGED <<pc, errs, chans, received, issued, returned>>
    /\ UNCHANGED pullFrame

\* pullImage: done <- err or done <- nil; the send blocks on a full channel.
SendStep ==
    /\ \E j \in jobs :
          /\ j.at = "send"
          /\ Len(chans["results"]) < Cardinality(PullRefs(desired))
          /\ chans' = [chans EXCEPT !["results"] = Append(@, [ref |-> j.ref, ok |-> j.ok])]
          /\ jobs' = jobs \ {j}
          /\ issued' = Issue("send", j.ref, j.ok)
    /\ UNCHANGED <<pc, errs, received, returned, images>>
    /\ UNCHANGED pullFrame

\* The loop that receives len(imageRefs) results and keeps the errors.
CollectStep ==
    /\ pc = "collect"
    /\ IF received["results"] >= AwaitResults(PullRefs(desired))
       THEN /\ pc' = "pulled"
            /\ returned' = <<errs>>
            /\ UNCHANGED <<errs, chans, received>>
       ELSE /\ chans["results"] # <<>>
            /\ errs' = Collect(errs, Head(chans["results"]).ok,
                               Err("pullImage", Head(chans["results"]).ref))
            /\ chans' = [chans EXCEPT !["results"] = Tail(@)]
            /\ received' = [received EXCEPT !["results"] = @ + 1]
            /\ UNCHANGED <<pc, returned>>
    /\ UNCHANGED <<jobs, issued, images>>
    /\ UNCHANGED pullFrame

NextPull == SpawnStep \/ ImagePullStep \/ ReadAllStep \/ SendStep \/ CollectStep

SpecPull == InitPull /\ [][NextPull]_vars

\* The references of the desired units that have a Container.
ContainerRefs ==
    {RefOf(desired.Units[i].Container[1]) :
        i \in {j \in DOMAIN desired.Units : desired.Units[j].Container # <<>>}}

\* The number of entries of the log with an operation and a reference.
Entries(op, ref) ==
    Cardinality({i \in DOMAIN issued : issued[i].op = op /\ issued[i].item = ref})

FailedPulls == {issued[i].item : i \in {j \in DOMAIN issued :
                                           issued[j].op = "send" /\ ~issued[j].ok}}

\* C34: PullAllImages starts one pull task per distinct reference of the
\* desired units with a Container, returns only after every task has posted
\* its result, returns exactly the errors of the failed pulls, and never
\* waits for a result that will not come: every task posts one result.
C34_OnePullPerRefAllAwaited ==
    /\ \A ref \in Spawned : ref \in ContainerRefs /\ Entries("go", ref) = 1
    /\ \A ref \in ContainerRefs : Entries("send", ref) <= 1
    /\ pc \in {"collect", "pulled"} => Spawned = ContainerRefs
    /\ pc = "pulled" =>
          /\ \A ref \in ContainerRefs : Entries("send", ref) = 1
          /\ jobs = {}
          /\ chans["results"] = <<>>
          /\ Len(returned[1]) = Cardinality(FailedPulls)
          /\ Elems(returned[1]) = {Err("pullImage", ref) : ref \in FailedPulls}
    /\ (pc = "collect" /\ received["results"] < Cardinality(ContainerRefs)) =>
          (chans["results"] # <<>> \/ jobs # {})
    /\ Len(chans["results"]) + Cardinality(jobs) <= Cardinality(ContainerRefs)

\* Two references were pulled, one pull failed, and PullAllImages returned
\* the one error.
C34_Witness ==
    /\ pc = "pulled"
    /\ Cardinality(ContainerRefs) = 2
    /\ Len(desired.Units) = 2
    /\ Cardinality(FailedPulls) = 1
    /\ Len(returned[1]) = 1

(***************************************************************************)
(* POST /desired: the built unit is persisted with MakeDesired and encoded *)
(* as the response; a caller may then call MakeDesired on it again.        *)
(***************************************************************************)
MaxRows == 2

\* The rows of state_systemd_units, with the ids the serial column gave them.
RowsOf(units) == [i \in DOMAIN units |-> [ID |-> i, unit |-> units[i]]]

NextID(rows) == Len(rows) + 1

\* What a method with a value receiver leaves in the caller's unit, and what
\* one with a pointer receiver would.
UnitAfterPointerCall(caller, copy) == copy
UnitAfterValueCall(caller, copy) == caller

\* unit.MakeDesired(session): refused for a unit with an ID; otherwise the
\* row is inserted and the returned id is scanned into the receiver's ID.
MakeDesired(caller, rows, insertOK) ==
    IF caller.ID # <<>>
    THEN [err |-> <<Err("MakeDesired", "already persisted")>>, rows |-> rows, unit |-> caller]
    ELSE IF ~insertOK
    THEN [err |-> <<Err("MakeDesired", "insert")>>, rows |-> rows, unit |-> caller]
    ELSE [err |-> <<>>,
          rows |-> Append(rows, [ID |-> NextID(rows), unit |-> caller.unit]),
          unit |-> UnitAfterValueCall(caller, [caller EXCEPT !.ID = <<NextID(rows)>>])]

InitMake ==
    /\ pc = "request"
    /\ bag = FullBag
    /\ desired = [Units |-> <<>>, Files |-> NoFiles]
    /\ actual = [Units |-> <<>>, Files |-> NoFiles]
    /\ delta = EmptyDelta
    /\ dbUnits \in {RowsOf(us) : us \in SeqsUpTo({WebUnit(""), TickUnit("daily")}, MaxRows)}
    /\ hostUnits = [p \in {} |-> NoText]
    /\ hostFiles = [p \in {} |-> <<>>]
    /\ images = [r \in {} |-> <<>>]
    /\ downloadedNewer = {}
    /\ registry = [r \in {} |-> ""]
    /\ containers = [c \in {} |-> ""]
    /\ ApplyIdle
    /\ unit = <<>>
    /\ tried = 0
    /\ calls = 0
    /\ \E u \in {WebUnit(""), WebUnitPort(""), JobUnit(""), ApiUnit(""), TickUnit("hourly")} :
          built = <<[ID |-> <<>>, unit |-> u]>>
    /\ SecretsIdle
    /\ SyncIdle
    /\ ExtraIdle

\* What neither step changes.
makeFrame == <<bag, desired, actual, delta, hostUnits, hostFiles, images, downloadedNewer,
               registry, containers, leaseSecrets, restartUnits, needsReload, applied,
               restartNeeded, result, redelta, ops, faults, secretVars, unit, tried,
               currentSync, hpc, starting, workers, granted, terminals, alive, extraVars>>

\* handleCreateDesired once the unit is built: MakeDesired, then 500 or 201
\* with the unit the handler holds as the body.
HandleCreateDesiredStep ==
    /\ pc = "request"
    /\ \E insertOK \in BOOLEAN :
          LET made == MakeDesired(built[1], dbUnits, insertOK)
          IN  /\ dbUnits' = made.rows
              /\ built' = <<made.unit>>
              /\ calls' = calls + (Len(made.rows) - Len(dbUnits))
              /\ errs' = made.err
              /\ response' = IF made.err # <<>>
                             THEN <<[status |-> "InternalServerError", body |-> <<>>]>>
                             ELSE <<[status |-> "Created", body |-> <<made.unit>>]>>
    /\ pc' = "responded"
    /\ UNCHANGED makeFrame

\* A second MakeDesired on the unit that was created.
MakeDesiredAgainStep ==
    /\ pc = "responded"
    /\ response[1].status = "Created"
    /\ \E insertOK \in BOOLEAN :
          LET made == MakeDesired(built[1], dbUnits, insertOK)
          IN  /\ dbUnits' = made.rows
              /\ built' = <<made.unit>>
              /\ calls' = calls + (Len(made.rows) - Len(dbUnits))
              /\ errs' = made.err
    /\ pc' = "remade"
    /\ UNCHANGED response
    /\ UNCHANGED makeFrame

NextMake == HandleCreateDesiredStep \/ MakeDesiredAgainStep

SpecMake == InitMake /\ [][NextMake]_vars

\* C35: after MakeDesired succeeds, the unit the caller holds, which
\* POST /desired returns as the created unit, carries the id of the inserted
\* row, and a second MakeDesired on it is refused as already persisted and
\* inserts no second row.
C35_InsertedIdReachesCaller ==
    /\ (pc = "responded" /\ response[1].status = "Created") =>
          /\ built[1].ID = <<dbUnits[Len(dbUnits)].ID>>
          /\ response[1].body = built
          /\ calls = 1
    /\ pc = "remade" =>
          /\ errs = <<Err("MakeDesired", "already persisted")>>
          /\ calls = 1

(***************************************************************************)
(* Properties of Apply: the self-restart gate and the TLS files.           *)
(***************************************************************************)
\* The TLS files of FilesToWrite whose write failed.
FailedTLSWrites ==
    {issued[i].item : i \in {j \in DOMAIN issued :
        /\ issued[j].op = "WriteFile"
        /\ IsTLSFile(issued[j].item)
        /\ ~issued[j].ok}}

\* C36: Apply exits through the self-restart gate only when every TLS file of
\* FilesToWrite was written; when the write of a TLS file failed the process
\* does not exit with status 0 and the errors are returned to the caller.
C36_GateOnlyAfterTLSWritten ==
    /\ pc = "exited" => FailedTLSWrites = {}
    /\ (FailedTLSWrites # {} /\ pc \in {"returned", "exited"}) =>
          /\ pc = "returned"
          /\ \A p \in FailedTLSWrites : Err("WriteFile", p) \in Elems(returned[1])

(***************************************************************************)
(* Properties of Apply: unit files that cannot be rendered.                *)
(***************************************************************************)
\* The units of UnitsToAdd and UnitsToChange.
UnitsWritten == Elems(delta.UnitsToAdd) \cup Elems(delta.UnitsToChange)

\* The unit file at a path as ReadActualState found it before Apply, as a
\* sequence of at most one text.
FileBefore(path) ==
    IF \E i \in DOMAIN actual.Units : actual.Units[i].Path = path
    THEN <<actual.Units[CHOOSE i \in DOMAIN actual.Units : actual.Units[i].Path = path].Content>>
    ELSE <<>>

FileNow(path) == IF path \in DOMAIN hostUnits THEN <<hostUnits[path]>> ELSE <<>>

\* C37: when rendering a unit of UnitsToAdd or UnitsToChange fails, the file
\* at the unit's path keeps the content it had before Apply and is never left
\* truncated or empty.
C37_FailedRenderLeavesFile ==
    pc = "apply_stop" =>
        \A d \in UnitsWritten : RenderFails(d) => FileNow(d.Path) = FileBefore(d.Path)

(***************************************************************************)
(* The units of the catalogue and the secrets they name, over a sequence   *)
(* of create-unit, update-unit, set-secrets and delete-secrets requests,   *)
(* each served on a lease of its own.                                      *)
(***************************************************************************)
MaxOps == 3

\* The secrets lists a request gives a unit.
UnitSecretsInputs == {<<>>, <<"A">>, <<"A", "B">>}

\* ValidateSecretKeys: no key is missing from the bag.
ValidateSecretKeys(secretKeys, secrets) ==
    \A i \in DOMAIN secretKeys : secretKeys[i] \in DOMAIN secrets

\* The bag after bag.Set of each given secret.
SetAll(secrets, given) ==
    [k \in DOMAIN secrets \cup DOMAIN given |->
        IF k \in DOMAIN given THEN given[k] ELSE secrets[k]]

\* The bag after bag.Delete of each given key.
DeleteAll(secrets, keys) == [k \in DOMAIN secrets \ keys |-> secrets[k]]

InitRefs ==
    /\ pc = "serving"
    /\ bag \in [{"A", "B"} -> {OldValue}] \cup [{"A"} -> {OldValue}]
    /\ desired = [Units |-> <<>>, Files |-> NoFiles]
    /\ actual = [Units |-> <<>>, Files |-> NoFiles]
    /\ delta = EmptyDelta
    /\ HostIdle
    /\ ApplyIdle
    /\ AuxIdle

\* What no request changes.
refsFrame == <<pc, desired, actual, delta, hostUnits, hostFiles, images, downloadedNewer,
               registry, containers, leaseSecrets, errs, restartUnits, needsReload, applied,
               restartNeeded, result, redelta, faults, secretVars, builderVars, syncVars,
               extraVars>>

MayServe == pc = "serving" /\ Len(ops) < MaxOps

\* POST /desired: builder.Secrets validates the keys against the bag, then
\* MakeDesired inserts the unit.
CreateUnitRequest ==
    /\ MayServe
    /\ \E keys \in UnitSecretsInputs, stored \in BOOLEAN :
          LET valid == ValidateSecretKeys(keys, bag)
          IN  /\ dbUnits' = IF valid /\ stored
                            THEN Append(dbUnits, [JobUnit("") EXCEPT !.Secrets = keys])
                            ELSE dbUnits
              /\ ops' = Append(ops, <<"create", valid /\ stored>>)
    /\ UNCHANGED bag
    /\ UNCHANGED refsFrame

\* PUT /desired/{id}: builder.Secrets validates the keys against the bag,
\* then Update rewrites the row.
UpdateUnitRequest ==
    /\ MayServe
    /\ \E i \in DOMAIN dbUnits : \E keys \in UnitSecretsInputs, stored \in BOOLEAN :
          LET valid == ValidateSecretKeys(keys, bag)
          IN  /\ dbUnits' = IF valid /\ stored
                            THEN [dbUnits EXCEPT ![i].Secrets = keys]
                            ELSE dbUnits
              /\ ops' = Append(ops, <<"update", valid /\ stored>>)
    /\ UNCHANGED bag
    /\ UNCHANGED refsFrame

\* POST /secrets: SetSecrets.
SetSecretsRequest ==
    /\ MayServe
    /\ \E k \in {"A", "B"}, saved \in BOOLEAN :
          /\ bag' = IF saved THEN SetAll(bag, [x \in {k} |-> NewValue]) ELSE bag
          /\ ops' = Append(ops, <<"set", saved>>)
    /\ UNCHANGED dbUnits
    /\ UNCHANGED refsFrame

\* DELETE /secrets: DeleteSecrets removes the keys whatever the catalogue
\* names.
DeleteSecretsRequest ==
    /\ MayServe
    /\ \E keys \in {{"A"}, {"B"}, {"A", "B"}}, saved \in BOOLEAN :
          /\ bag' = IF saved THEN DeleteAll(bag, keys) ELSE bag
          /\ ops' = Append(ops, <<"delete", saved>>)
    /\ UNCHANGED dbUnits
    /\ UNCHANGED refsFrame

NextRefs ==
    \/ CreateUnitRequest
    \/ UpdateUnitRequest
    \/ SetSecretsRequest
    \/ DeleteSecretsRequest

SpecRefs == InitRefs /\ [][NextRefs]_vars

\* C38: after any sequence of create-unit, update-unit, set-secrets and
\* delete-secrets operations, every secret key listed by a persisted desired
\* unit exists in the secrets store.
C38_UnitSecretsExist ==
    \A i \in DOMAIN dbUnits : \A k \in Elems(dbUnits[i].Secrets) : k \in DOMAIN bag

(***************************************************************************)
(* Two leases changing secrets at once: each loads the bag, changes its    *)
(* copy and saves it.                                                      *)
(***************************************************************************)
Leases == {1, 2}

\* The rows of a bag, with the values in the clear.
PlainRows(secrets) ==
    LET ks == SetToSeq(DOMAIN secrets)
    IN  [i \in DOMAIN ks |-> [key |-> ks[i], value |-> secrets[ks[i]]]]

\* The bag LoadFromDatabase builds of rows: a later row of a key replaces an
\* earlier one.
PlainBag(rows) ==
    [k \in {rows[i].key : i \in DOMAIN rows} |->
        rows[CHOOSE i \in DOMAIN rows :
                /\ rows[i].key = k
                /\ \A j \in DOMAIN rows : rows[j].key = k => j <= i].value]

\* The requests of the second lease.
OtherRequests ==
    {[op |-> "DeleteSecrets", keys |-> {"A"}, secrets |-> [k \in {} |-> NoBytes]],
     [op |-> "DeleteSecrets", keys |-> {"A", "C"}, secrets |-> [k \in {} |-> NoBytes]],
     [op |-> "SetSecrets", keys |-> {}, secrets |-> [k \in {"A"} |-> NewValue]],
     [op |-> "SetSecrets", keys |-> {}, secrets |-> [k \in {"C"} |-> OldValue]]}

InitLeases ==
    /\ pc = "leases"
    /\ bag = EmptyBag
    /\ desired = [Units |-> <<>>, Files |-> NoFiles]
    /\ actual = [Units |-> <<>>, Files |-> NoFiles]
    /\ delta = EmptyDelta
    /\ HostIdle
    /\ ApplyIdle
    /\ table \in {PlainRows(b) : b \in {[k \in {"A"} |-> OldValue],
                                        [k \in {"A", "C"} |-> OldValue],
                                        [k \in {"C"} |-> NewValue]}}
    /\ wrappedLen = 0
    /\ saveBag = EmptyBag
    /\ truncating = FALSE
    /\ saveOK = FALSE
    /\ loadedBag = <<>>
    /\ skippedRows = {}
    /\ lastCall = NoCall
    /\ cryptoOK = TRUE
    /\ plaintext = <<>>
    /\ envelope = NoBytes
    /\ recovered = <<>>
    /\ BuilderIdle
    /\ SyncIdle
    /\ FanIdle
    /\ low = 0
    /\ available = <<>>
    /\ lock = 0
    /\ \E v \in SecretValues, other \in OtherRequests :
          callers = [l \in Leases |->
                        [at |-> "start", held |-> <<>>, saved |-> FALSE,
                         request |-> IF l = 1
                                     THEN [op |-> "SetSecrets", keys |-> {},
                                           secrets |-> [k \in {"B"} |-> v]]
                                     ELSE other]]
    /\ closed = {}
    /\ created = 0
    /\ LeaseIdle

\* What no step of a lease changes.
leasesFrame == <<pc, bag, desired, actual, delta, hostVars, leaseSecrets, errs, restartUnits,
                 needsReload, applied, restartNeeded, result, redelta, faults, wrappedLen,
                 saveBag, truncating, saveOK, loadedBag, skippedRows, lastCall, cryptoOK,
                 plaintext, envelope, recovered, builderVars, syncVars, fanVars, low,
                 available, lock, closed, created, leaseVars>>

\* The rows a save with truncate = true leaves of the table: none.
Truncate(rows, truncate) == IF truncate THEN <<>> ELSE rows

\* s.GetSecrets() at the top of SetSecrets and DeleteSecrets: the lease loads
\* the stored bag.
LeaseLoadStep(l) ==
    /\ callers[l].at = "start"
    /\ \E dbOK \in BOOLEAN :
          callers' = [callers EXCEPT ![l] =
                         IF dbOK THEN [@ EXCEPT !.at = "loaded", !.held = <<PlainBag(table)>>]
                         ELSE [@ EXCEPT !.at = "done"]]
    /\ ops' = Append(ops, <<l, "load">>)
    /\ UNCHANGED table
    /\ UNCHANGED leasesFrame

\* The bag is changed and saved: SetSecrets without truncating, DeleteSecrets
\* with; the transaction may fail.
LeaseSaveStep(l) ==
    /\ callers[l].at = "loaded"
    /\ \E saved \in BOOLEAN :
          LET r == callers[l].request
              changed == IF r.op = "SetSecrets" THEN SetAll(callers[l].held[1], r.secrets)
                         ELSE DeleteAll(callers[l].held[1], r.keys)
          IN  /\ table' = IF saved
                          THEN Truncate(table, r.op = "DeleteSecrets") \o PlainRows(changed)
                          ELSE table
              /\ callers' = [callers EXCEPT ![l] =
                                [@ EXCEPT !.at = "done", !.held = <<changed>>, !.saved = saved]]
    /\ ops' = Append(ops, <<l, "save">>)
    /\ UNCHANGED leasesFrame

NextLeases == \E l \in Leases : LeaseLoadStep(l) \/ LeaseSaveStep(l)

SpecLeases == InitLeases /\ [][NextLeases]_vars

\* The position of an event in the log, 0 when it has not happened.
At(l, what) ==
    IF \E i \in DOMAIN ops : ops[i] = <<l, what>>
    THEN CHOOSE i \in DOMAIN ops : ops[i] = <<l, what>>
    ELSE 0

\* Both operations committed, and the second lease loaded its bag before the
\* first lease saved.
BothCommittedStale ==
    /\ callers[1].at = "done" /\ callers[1].saved
    /\ callers[2].at = "done" /\ callers[2].saved
    /\ At(2, "load") < At(1, "save")

\* C39: when one lease adds key B with SetSecrets while another, whose bag was
\* loaded before that save, calls DeleteSecrets or SetSecrets on a different
\* key, the table holds B with the value that was set once both have
\* committed.
C39_NoLostUpdate ==
    BothCommittedStale =>
        /\ "B" \in DOMAIN PlainBag(table)
        /\ PlainBag(table)["B"] = callers[1].request.secrets["B"]

\* The same when the second lease calls SetSecrets, which saves without
\* truncating.
C39_SetKeepsOtherKey ==
    (BothCommittedStale /\ callers[2].request.op = "SetSecrets") =>
        /\ "B" \in DOMAIN PlainBag(table)
        /\ PlainBag(table)["B"] = callers[1].request.secrets["B"]

====
